---- MODULE Spec2Model ----
(***************************************************************************)
(* A model of wordle-rs: the guess-scoring algorithm (lib.rs), the player  *)
(* record and its text database (players/mod.rs, players/database.rs) and  *)
(* the console state machine (console_app).                                *)
(*                                                                         *)
(* Characters are one-character strings, and a Rust string is the sequence *)
(* of its characters.                                                      *)
(***************************************************************************)
EXTENDS Integers, Sequences, FiniteSets, TLC

VARIABLES
    answer,         \* the WordleAnswer being guessed: [word, letter_counts]
    guess,          \* the guess last handed to check_guess
    colors,         \* the array check_guess returned for it
    scored,         \* whether check_guess has run against this answer
    current_player, \* the PlayerInfo in use
    last_op,        \* the call made last, with its arguments: a method of
                    \* PlayerInfo or, in the step after it, what a session
                    \* read at the username prompt or as the confirmation
                    \* of a deletion, or the result of the game that ended
    ret,            \* what that call returned
    ops,            \* the number of games recorded or started so far
    state,          \* the ProgramState of console_app::run
    attempt,        \* the guess number game::run is asking for (0: no game)
    usernames,      \* the BTreeSet of usernames in memory
    entered,        \* the username request_username returned last
    users_file,     \* users.txt
    player_files,   \* <username>.txt, for each username
    out,            \* the message the last step printed, if any
    script          \* what the person at the keyboard may do in this run

scoreVars == <<answer, guess, colors, scored>>
recordVars == <<current_player, last_op, ret, ops>>
sessionVars ==
    <<state, attempt, usernames, entered, users_file, player_files, out,
      script>>
vars ==
    <<answer, guess, colors, scored, current_player, last_op, ret, ops,
      state, attempt, usernames, entered, users_file, player_files, out,
      script>>

(***************************************************************************)
(* Bounds.                                                                 *)
(***************************************************************************)
\* The number of distinct letters words are built from.
NumLetters == 3

\* The number of words in the dictionary.
DictSize == 2

\* The number of games recorded on one PlayerInfo.
MaxOps == 2

\* The number of games started in one run of the console.
MaxGames == 1

(***************************************************************************)
(* Characters.                                                             *)
(***************************************************************************)
ABC ==
    << "A", "B", "C", "D", "E", "F", "G", "H", "I", "J", "K", "L", "M",
       "N", "O", "P", "Q", "R", "S", "T", "U", "V", "W", "X", "Y", "Z" >>

\* The position of each capital letter in the alphabet, from 0.
LetterIndexOf ==
    [c \in {ABC[i] : i \in 1..26} |-> (CHOOSE i \in 1..26 : ABC[i] = c) - 1]

\* c as usize - 'A' as usize
LetterIndex(c) ==
    LetterIndexOf[c]

\* The letters in the order the bound admits them.
LetterOrder ==
    << "A", "B", "Z", "C", "E", "R", "T" >>

Letters ==
    { LetterOrder[i] : i \in 1..NumLetters }

\* The length of a word: the size of the array check_guess returns.
WordLen == 5

Words ==
    [1..WordLen -> Letters]

Min(a, b) ==
    IF a <= b THEN a ELSE b

Max(a, b) ==
    IF a >= b THEN a ELSE b

(***************************************************************************)
(* lib.rs: WordleGuess, WordleAnswer.                                      *)
(***************************************************************************)
Correct == "G"
Present == "Y"
Incorrect == "X"

WordleGuess ==
    {Correct, Present, Incorrect}

\* x += 1 and x -= 1 on a u8 (wrapping, as in a release build).
U8Inc(x) ==
    (x + 1) % 256

U8Dec(x) ==
    (x + 255) % 256

RECURSIVE CountLetters(_, _, _)
\* word.chars().for_each(|c| letter_counts[c - 'A'] += 1), from position i on.
CountLetters(word, i, letter_counts) ==
    IF i > Len(word)
    THEN letter_counts
    ELSE CountLetters(word, i + 1,
            [letter_counts EXCEPT ![LetterIndex(word[i])] = U8Inc(@)])

WordleAnswer_new(word) ==
    [ word |-> word,
      letter_counts |-> CountLetters(word, 1, [k \in 0..25 |-> 0]) ]

RECURSIVE GreenPassButLast(_, _, _, _)
\* The first loop stopping one position short of the end of the words.
GreenPassButLast(word, g, i, st) ==
    IF i >= Min(Len(word), Len(g))
    THEN st
    ELSE IF word[i] = g[i]
         THEN GreenPassButLast(word, g, i + 1,
                [ letter_counts |->
                      [st.letter_counts EXCEPT ![LetterIndex(g[i])] = U8Dec(@)],
                  colors |-> [st.colors EXCEPT ![i] = Correct] ])
         ELSE GreenPassButLast(word, g, i + 1, st)

RECURSIVE GreenPass(_, _, _, _)
\* The first loop of check_guess over word.chars().zip(guess.chars()), from
\* position i on; st is [colors, letter_counts].
GreenPass(word, g, i, st) ==
    IF i > Min(Len(word), Len(g))
    THEN st
    ELSE IF word[i] = g[i]
         THEN GreenPass(word, g, i + 1,
                [ letter_counts |->
                      [st.letter_counts EXCEPT ![LetterIndex(g[i])] = U8Dec(@)],
                  colors |-> [st.colors EXCEPT ![i] = Correct] ])
         ELSE GreenPass(word, g, i + 1, st)

RECURSIVE YellowPassNoDecrement(_, _, _)
\* The second loop without the decrement of the remaining count.
YellowPassNoDecrement(g, i, st) ==
    IF i > Len(g)
    THEN st
    ELSE IF st.colors[i] = Incorrect /\ st.letter_counts[LetterIndex(g[i])] > 0
         THEN YellowPassNoDecrement(g, i + 1,
                [ colors |-> [st.colors EXCEPT ![i] = Present],
                  letter_counts |-> st.letter_counts ])
         ELSE YellowPassNoDecrement(g, i + 1, st)

RECURSIVE YellowPassAnyColor(_, _, _)
\* The second loop without the test that the position is still Incorrect.
YellowPassAnyColor(g, i, st) ==
    IF i > Len(g)
    THEN st
    ELSE IF st.letter_counts[LetterIndex(g[i])] > 0
         THEN YellowPassAnyColor(g, i + 1,
                [ colors |-> [st.colors EXCEPT ![i] = Present],
                  letter_counts |->
                      [st.letter_counts EXCEPT ![LetterIndex(g[i])] = U8Dec(@)] ])
         ELSE YellowPassAnyColor(g, i + 1, st)

RECURSIVE YellowPassRightToLeft(_, _, _)
\* The second loop scanning the guess from its last position to its first.
YellowPassRightToLeft(g, i, st) ==
    IF i > Len(g)
    THEN st
    ELSE LET p == Len(g) + 1 - i
         IN  IF st.colors[p] = Incorrect /\ st.letter_counts[LetterIndex(g[p])] > 0
             THEN YellowPassRightToLeft(g, i + 1,
                    [ colors |-> [st.colors EXCEPT ![p] = Present],
                      letter_counts |->
                          [st.letter_counts EXCEPT ![LetterIndex(g[p])] = U8Dec(@)] ])
             ELSE YellowPassRightToLeft(g, i + 1, st)

RECURSIVE YellowPass(_, _, _)
\* The second loop of check_guess over guess.chars(), from position i on.
YellowPass(g, i, st) ==
    IF i > Len(g)
    THEN st
    ELSE IF st.colors[i] = Incorrect /\ st.letter_counts[LetterIndex(g[i])] > 0
         THEN YellowPass(g, i + 1,
                [ colors |-> [st.colors EXCEPT ![i] = Present],
                  letter_counts |->
                      [st.letter_counts EXCEPT ![LetterIndex(g[i])] = U8Dec(@)] ])
         ELSE YellowPass(g, i + 1, st)

\* The state check_guess starts from: all Incorrect, and a copy of the counts.
CheckStart(self) ==
    [ colors |-> [i \in 1..WordLen |-> Incorrect],
      letter_counts |-> self.letter_counts ]

\* check_guess working on the answer's own counts instead of a copy.
check_guess_in_place(self, g) ==
    LET green == GreenPass(self.word, g, 1, CheckStart(self))
        yellow == YellowPass(g, 1, green)
    IN  [ colors |-> yellow.colors,
          green |-> green.colors,
          letter_counts |-> yellow.letter_counts,
          self |-> [self EXCEPT !.letter_counts = yellow.letter_counts] ]

\* check_guess(&self, guess): the array returned, the local counts it ends
\* with, and the answer as the call leaves it.
check_guess(self, g) ==
    LET green == GreenPass(self.word, g, 1, CheckStart(self))
        yellow == YellowPass(g, 1, green)
    IN  [ colors |-> yellow.colors,
          green |-> green.colors,
          letter_counts |-> yellow.letter_counts,
          self |-> self ]

(***************************************************************************)
(* Strings: the std operations the player database uses.                   *)
(***************************************************************************)
NL == "\n"
CR == "\r"

Digits ==
    << "0", "1", "2", "3", "4", "5", "6", "7", "8", "9" >>

IsDigit(c) ==
    \E d \in 1..10 : Digits[d] = c

DigitValue(c) ==
    (CHOOSE d \in 1..10 : Digits[d] = c) - 1

RECURSIVE usize_to_string(_)
\* usize::to_string: the decimal digits of n.
usize_to_string(n) ==
    IF n < 10
    THEN << Digits[n + 1] >>
    ELSE Append(usize_to_string(n \div 10), Digits[(n % 10) + 1])

RECURSIVE DigitsValue(_, _, _)
\* The value of the digits of s from position i on, given the value so far;
\* -1 when a character is no digit.
DigitsValue(s, i, acc) ==
    IF i > Len(s)
    THEN acc
    ELSE IF IsDigit(s[i])
         THEN DigitsValue(s, i + 1, 10 * acc + DigitValue(s[i]))
         ELSE -1

\* str::parse::<usize>: an optional '+', then one or more digits. (The
\* numbers of the model stay far below the largest usize.)
ParseUsize(s) ==
    LET body == IF Len(s) > 0 /\ s[1] = "+" THEN Tail(s) ELSE s
        v == IF Len(body) = 0 THEN -1 ELSE DigitsValue(body, 1, 0)
    IN  IF v < 0
        THEN [ok |-> FALSE]
        ELSE [ok |-> TRUE, value |-> v]

\* Whether the characters of d stand in s from position i on.
StartsAt(s, i, d) ==
    /\ i + Len(d) - 1 <= Len(s)
    /\ \A k \in 1..Len(d) : s[i + k - 1] = d[k]

\* str::split_once(delim): the text before and after the first delim.
SplitOnce(s, d) ==
    IF \E i \in 1..Len(s) : StartsAt(s, i, d)
    THEN LET at == CHOOSE i \in 1..Len(s) :
                       /\ StartsAt(s, i, d)
                       /\ \A j \in 1..(i - 1) : ~StartsAt(s, j, d)
         IN  [ found |-> TRUE,
               key |-> SubSeq(s, 1, at - 1),
               value |-> SubSeq(s, at + Len(d), Len(s)) ]
    ELSE [found |-> FALSE]

\* The position of the k-th of the positions at, which are those of the
\* delimiters of a string of length n; 0 for k = 0, and n + 1 when there
\* are fewer than k.
NthAt(at, n, k) ==
    IF k = 0
    THEN 0
    ELSE IF k > Cardinality(at)
         THEN n + 1
         ELSE CHOOSE i \in at : Cardinality({ j \in at : j < i }) = k - 1

\* str::split(c): the pieces of s between the characters c; the empty
\* string gives one empty piece.
Split(s, c) ==
    LET at == { i \in 1..Len(s) : s[i] = c }
    IN  [ k \in 1..(Cardinality(at) + 1) |->
            SubSeq(s, NthAt(at, Len(s), k - 1) + 1, NthAt(at, Len(s), k) - 1) ]

\* One line of str::lines without the carriage return before its newline.
StripCR(line) ==
    IF Len(line) > 0 /\ line[Len(line)] = CR
    THEN SubSeq(line, 1, Len(line) - 1)
    ELSE line

\* str::lines: the text between newlines; no line after a final newline.
Lines(text) ==
    LET pieces == Split(text, NL)
        kept == IF pieces[Len(pieces)] = << >>
                THEN SubSeq(pieces, 1, Len(pieces) - 1)
                ELSE pieces
    IN  [i \in 1..Len(kept) |-> StripCR(kept[i])]

RECURSIVE Join(_, _)
\* [String]::join(sep)
Join(items, sep) ==
    IF Len(items) = 0
    THEN << >>
    ELSE IF Len(items) = 1
         THEN items[1]
         ELSE items[1] \o sep \o Join(Tail(items), sep)

\* The elements of a sequence, as a set: Iterator::collect into a HashSet.
Range(f) ==
    { f[i] : i \in DOMAIN f }

\* The orders in which a HashSet may hand out its elements.
Orders(S) ==
    { o \in [1..Cardinality(S) -> S] : Range(o) = S }

(***************************************************************************)
(* players/database.rs: DatabaseEntry.                                     *)
(***************************************************************************)
\* Delimiter between the field name and data for database entries
DELIM ==
    << ":", " " >>

COMMA == ","

\* DatabaseEntry::from_line with str::to_owned: None without the delimiter.
from_line(line) ==
    LET split_str == SplitOnce(line, DELIM)
    IN  IF split_str.found
        THEN [some |-> TRUE, name |-> split_str.key, value |-> split_str.value]
        ELSE [some |-> FALSE]

\* DatabaseEntry::try_from_line with str::parse::<usize>: Ok(None) without
\* the delimiter, Err when the value does not parse.
try_from_line(line) ==
    LET split_str == SplitOnce(line, DELIM)
        value == ParseUsize(split_str.value)
    IN  IF ~split_str.found
        THEN [err |-> FALSE, some |-> FALSE]
        ELSE IF ~value.ok
             THEN [err |-> TRUE]
             ELSE [err |-> FALSE, some |-> TRUE,
                   name |-> split_str.key, value |-> value.value]

\* DatabaseEntry::from_collection with str::to_owned, collected into a
\* HashSet.
from_collection(line) ==
    LET parsed_row == from_line(line)
    IN  IF parsed_row.some
        THEN [some |-> TRUE, name |-> parsed_row.name,
              value |-> Range(Split(parsed_row.value, COMMA))]
        ELSE [some |-> FALSE]

\* DatabaseEntry::try_from_collection with str::parse::<usize>, collected
\* into a Vec.
try_from_collection(line) ==
    LET parsed_row == from_line(line)
        items == Split(parsed_row.value, COMMA)
    IN  IF ~parsed_row.some
        THEN [err |-> FALSE, some |-> FALSE]
        ELSE IF \E i \in 1..Len(items) : ~ParseUsize(items[i]).ok
             THEN [err |-> TRUE]
             ELSE [err |-> FALSE, some |-> TRUE, name |-> parsed_row.name,
                   value |-> [i \in 1..Len(items) |-> ParseUsize(items[i]).value]]

(***************************************************************************)
(* players/mod.rs: PlayerInfo.                                             *)
(***************************************************************************)
\* The number of buckets of the guess distribution: num_guesses: [usize; 6].
NumBuckets == 6

PlayerInfo_load(username, words_played, num_guesses, max_win_streak, cur_win_streak) ==
    [ username |-> username,
      words_played |-> words_played,
      num_guesses |-> num_guesses,
      max_win_streak |-> max_win_streak,
      cur_win_streak |-> cur_win_streak ]

PlayerInfo_new(username) ==
    PlayerInfo_load(username, {}, [i \in 1..NumBuckets |-> 0], 0, 0)

\* add_won_word taking the maximum with the streak before its increment.
add_won_word_stale_max(self, word, num_guesses) ==
    [ self EXCEPT
        !.words_played = @ \cup {word},
        !.num_guesses = [@ EXCEPT ![num_guesses] = @ + 1],
        !.cur_win_streak = @ + 1,
        !.max_win_streak = Max(@, self.cur_win_streak) ]

\* add_lost_word resetting both streaks.
add_lost_word_both_streaks(self, word) ==
    [ self EXCEPT
        !.words_played = @ \cup {word},
        !.cur_win_streak = 0,
        !.max_win_streak = 0 ]

\* add_won_word(&mut self, word, num_guesses); bucket num_guesses - 1 of the
\* array is entry num_guesses of the sequence.
add_won_word(self, word, num_guesses) ==
    LET cur_win_streak == self.cur_win_streak + 1
    IN  [ self EXCEPT
            !.words_played = @ \cup {word},
            !.num_guesses = [@ EXCEPT ![num_guesses] = @ + 1],
            !.cur_win_streak = cur_win_streak,
            !.max_win_streak = Max(@, cur_win_streak) ]

\* add_lost_word also clearing the guess distribution.
add_lost_word_resets_counts(self, word) ==
    [ self EXCEPT !.words_played = @ \cup {word},
                  !.num_guesses = [i \in 1..NumBuckets |-> 0],
                  !.cur_win_streak = 0 ]

\* add_lost_word(&mut self, word)
add_lost_word(self, word) ==
    [ self EXCEPT
        !.words_played = @ \cup {word},
        !.cur_win_streak = 0 ]

KeyUsername ==
    << "U", "s", "e", "r", "n", "a", "m", "e" >>
KeyWordsPlayed ==
    << "W", "o", "r", "d", "s", " ", "P", "l", "a", "y", "e", "d" >>
KeyNumGuesses ==
    << "N", "u", "m", "b", "e", "r", " ", "o", "f", " ", "G", "u", "e", "s", "s", "e", "s" >>
KeyMaxWinStreak ==
    << "M", "a", "x", "i", "m", "u", "m", " ", "W", "i", "n", " ", "S", "t", "r", "e", "a", "k" >>
KeyCurWinStreak ==
    << "C", "u", "r", "r", "e", "n", "t", " ", "W", "i", "n", " ", "S", "t", "r", "e", "a", "k" >>

\* writeln!(f, "{key}: {value}")
WriteLine(key, value) ==
    key \o DELIM \o value \o << NL >>

\* The five lines with the current win streak before the maximum.
PlayerInfo_fmt_streaks_swapped(self, order) ==
    WriteLine(KeyUsername, self.username)
        \o WriteLine(KeyWordsPlayed, Join(order, << COMMA >>))
        \o WriteLine(KeyNumGuesses,
              Join([i \in 1..NumBuckets |-> usize_to_string(self.num_guesses[i])],
                   << COMMA >>))
        \o WriteLine(KeyCurWinStreak, usize_to_string(self.cur_win_streak))
        \o WriteLine(KeyMaxWinStreak, usize_to_string(self.max_win_streak))

\* impl Display for PlayerInfo; order is the order in which the HashSet
\* words_played hands out its words.
PlayerInfo_fmt(self, order) ==
    WriteLine(KeyUsername, self.username)
        \o WriteLine(KeyWordsPlayed, Join(order, << COMMA >>))
        \o WriteLine(KeyNumGuesses,
              Join([i \in 1..NumBuckets |-> usize_to_string(self.num_guesses[i])],
                   << COMMA >>))
        \o WriteLine(KeyMaxWinStreak, usize_to_string(self.max_win_streak))
        \o WriteLine(KeyCurWinStreak, usize_to_string(self.cur_win_streak))

\* The texts to_string may give: one for each order of the words.
PlayerInfo_to_string(self) ==
    { PlayerInfo_fmt(self, order) : order \in Orders(self.words_played) }

\* The array from_str fills from the parsed list: its first six numbers,
\* and 0 where the list is shorter.
NumGuessesArray(list) ==
    [i \in 1..NumBuckets |-> IF i <= Len(list) THEN list[i] ELSE 0]

\* from_str turning away only the texts of fewer than 5 lines.
from_lines_at_least_five(lines_in_file) ==
    LET username == from_line(lines_in_file[1])
        words_played == from_collection(lines_in_file[2])
        num_guesses_list == try_from_collection(lines_in_file[3])
        max_win_streak == try_from_line(lines_in_file[4])
        cur_win_streak == try_from_line(lines_in_file[5])
    IN  IF Len(lines_in_file) < 5
        THEN [ok |-> FALSE]
        ELSE IF \/ ~username.some
                \/ ~words_played.some
                \/ num_guesses_list.err
                \/ ~num_guesses_list.some
                \/ max_win_streak.err
                \/ ~max_win_streak.some
                \/ cur_win_streak.err
                \/ ~cur_win_streak.some
             THEN [ok |-> FALSE]
             ELSE [ ok |-> TRUE,
                    player |->
                        PlayerInfo_load(username.value, words_played.value,
                            NumGuessesArray(num_guesses_list.value),
                            max_win_streak.value, cur_win_streak.value) ]

\* PlayerInfo::from_str, once the lines are collected.
from_lines(lines_in_file) ==
    LET username == from_line(lines_in_file[1])
        words_played == from_collection(lines_in_file[2])
        num_guesses_list == try_from_collection(lines_in_file[3])
        max_win_streak == try_from_line(lines_in_file[4])
        cur_win_streak == try_from_line(lines_in_file[5])
    IN  IF Len(lines_in_file) # 5
        THEN [ok |-> FALSE]
        ELSE IF \/ ~username.some
                \/ ~words_played.some
                \/ num_guesses_list.err
                \/ ~num_guesses_list.some
                \/ max_win_streak.err
                \/ ~max_win_streak.some
                \/ cur_win_streak.err
                \/ ~cur_win_streak.some
             THEN [ok |-> FALSE]
             ELSE [ ok |-> TRUE,
                    player |->
                        PlayerInfo_load(username.value, words_played.value,
                            NumGuessesArray(num_guesses_list.value),
                            max_win_streak.value, cur_win_streak.value) ]

\* PlayerInfo::from_str: Err(bad_data_err()) or Ok(Some(player)).
from_str(player_data) ==
    from_lines(Lines(player_data))

\* PlayerInfo::from_file of players.rs, once the lines are collected: the
\* current win streak is parsed from lines_in_file[3], as the maximum is.
players_rs_from_lines(lines_in_file) ==
    LET username == from_line(lines_in_file[1])
        words_played == from_collection(lines_in_file[2])
        num_guesses_list == try_from_collection(lines_in_file[3])
        max_win_streak == try_from_line(lines_in_file[4])
        cur_win_streak == try_from_line(lines_in_file[4])
    IN  IF Len(lines_in_file) # 5
        THEN [ok |-> FALSE]
        ELSE IF \/ ~username.some
                \/ ~words_played.some
                \/ num_guesses_list.err
                \/ ~num_guesses_list.some
                \/ max_win_streak.err
                \/ ~max_win_streak.some
                \/ cur_win_streak.err
                \/ ~cur_win_streak.some
             THEN [ok |-> FALSE]
             ELSE [ ok |-> TRUE,
                    player |->
                        PlayerInfo_load(username.value, words_played.value,
                            NumGuessesArray(num_guesses_list.value),
                            max_win_streak.value, cur_win_streak.value) ]

\* PlayerInfo::from_file of players.rs, on the text read from the file.
players_rs_from_file(file_contents) ==
    players_rs_from_lines(Lines(file_contents))

\* The outcome of a call that panics, and of one that returns word w.
Panic ==
    [panic |-> TRUE]

Returns(w) ==
    [panic |-> FALSE, word |-> w]

\* The words of a sequence that are not in the set played.
Unplayed(order, played) ==
    LET NotPlayed(w) == w \notin played
    IN  SelectSeq(order, NotPlayed)

\* get_random_word without the filter on the words played: any word of the
\* dictionary may come back.
get_random_word_unfiltered(self, dictionary) ==
    { Returns(w) : w \in dictionary }

\* PlayerInfo::get_random_word (players/mod.rs): the outcomes it may have,
\* over the orders in which the dictionary hands out its words and the
\* indices fastrand::usize(0..unplayed_words_cnt) may draw. The subtraction
\* of a larger length panics in a debug build and wraps in a release build,
\* where the index drawn may or may not fall among the unplayed words;
\* fastrand::usize panics on an empty range, and unwrap() on None.
get_random_word(self, dictionary) ==
    LET dict_len == Cardinality(dictionary)
        played_len == Cardinality(self.words_played)
        unplayed_words_cnt == dict_len - played_len
        OutcomeAt(order, random_word_idx) ==
            LET unplayed == Unplayed(order, self.words_played)
            IN  IF random_word_idx + 1 <= Len(unplayed)
                THEN Returns(unplayed[random_word_idx + 1])
                ELSE Panic
    IN  IF played_len > dict_len
        THEN {Panic} \cup
             { OutcomeAt(order, idx) :
                 order \in Orders(dictionary), idx \in 0..(dict_len - 1) }
        ELSE IF unplayed_words_cnt = 0
             THEN {Panic}
             ELSE { OutcomeAt(order, idx) :
                      order \in Orders(dictionary),
                      idx \in 0..(unplayed_words_cnt - 1) }

\* PlayerInfo::get_random_word (players.rs): the same count and index, but
\* the index is taken in the whole dictionary.
players_rs_get_random_word(self, dictionary) ==
    LET dict_len == Cardinality(dictionary)
        played_len == Cardinality(self.words_played)
        unplayed_words_cnt == dict_len - played_len
        OutcomeAt(order, random_word_idx) ==
            IF random_word_idx + 1 <= Len(order)
            THEN Returns(order[random_word_idx + 1])
            ELSE Panic
    IN  IF played_len > dict_len
        THEN {Panic} \cup
             { OutcomeAt(order, idx) :
                 order \in Orders(dictionary), idx \in 0..(dict_len - 1) }
        ELSE IF unplayed_words_cnt = 0
             THEN {Panic}
             ELSE { OutcomeAt(order, idx) :
                      order \in Orders(dictionary),
                      idx \in 0..(unplayed_words_cnt - 1) }

(***************************************************************************)
(* The dictionary and the usernames of the model.                          *)
(***************************************************************************)
DictWords ==
    << << "T", "R", "A", "C", "E" >>,
       << "R", "E", "A", "C", "T" >>,
       << "C", "R", "A", "T", "E" >>,
       << "C", "A", "T", "E", "R" >> >>

Dictionary ==
    { DictWords[i] : i \in 1..DictSize }

Names ==
    { << "a", "l" >>, << "b", "o" >> }

(***************************************************************************)
(* Scoring one guess against one answer.                                   *)
(***************************************************************************)
NoGuess == << >>

\* No method called yet, and no value returned.
NoOp ==
    [op |-> "none"]

NoPlayer ==
    [none |-> TRUE]

\* The console state machine is not running.
SessionIdle ==
    /\ state = "Exit"
    /\ attempt = 0
    /\ usernames = {}
    /\ entered = [some |-> FALSE]
    /\ users_file = << >>
    /\ player_files = << >>
    /\ out = ""
    /\ script = [login_lines |-> {}, games |-> 0, input |-> "open"]

RecordIdle ==
    /\ SessionIdle
    /\ current_player = NoPlayer
    /\ last_op = NoOp
    /\ ret = NoOp
    /\ ops = 0

ScoreIdle ==
    /\ answer = NoPlayer
    /\ guess = NoGuess
    /\ colors = << >>
    /\ scored = FALSE

InitScore ==
    /\ \E w \in Words : answer = WordleAnswer_new(w)
    /\ guess = NoGuess
    /\ colors = << >>
    /\ scored = FALSE
    /\ RecordIdle

\* answer.check_guess(g), for some guess g.
Score ==
    /\ scored = FALSE
    /\ \E g \in Words :
          LET r == check_guess(answer, g)
          IN  /\ answer' = r.self
              /\ guess' = g
              /\ colors' = r.colors
              /\ scored' = TRUE
    /\ UNCHANGED <<recordVars, sessionVars>>

NextScore ==
    Score

SpecScore ==
    InitScore /\ [][NextScore]_vars

(***************************************************************************)
(* The methods of one PlayerInfo, called in any order.                     *)
(***************************************************************************)
InitRecord ==
    /\ \E username \in Names : current_player = PlayerInfo_new(username)
    /\ last_op = NoOp
    /\ ret = NoOp
    /\ ops = 0
    /\ ScoreIdle
    /\ SessionIdle

\* player.add_won_word(word, num_guesses)
AddWonWord ==
    /\ ops < MaxOps
    /\ \E word \in Dictionary, num_guesses \in 1..NumBuckets :
          /\ current_player' = add_won_word(current_player, word, num_guesses)
          /\ last_op' = [op |-> "add_won_word", word |-> word,
                         num_guesses |-> num_guesses]
    /\ ret' = NoOp
    /\ ops' = ops + 1
    /\ UNCHANGED <<scoreVars, sessionVars>>

\* player.add_lost_word(word)
AddLostWord ==
    /\ ops < MaxOps
    /\ \E word \in Dictionary :
          /\ current_player' = add_lost_word(current_player, word)
          /\ last_op' = [op |-> "add_lost_word", word |-> word]
    /\ ret' = NoOp
    /\ ops' = ops + 1
    /\ UNCHANGED <<scoreVars, sessionVars>>

\* PlayerInfo::from_str(&player.to_string(), bad_data_err)
ToStringFromStr ==
    /\ \E text \in PlayerInfo_to_string(current_player) :
          ret' = [text |-> text, parsed |-> from_str(text)]
    /\ last_op' = [op |-> "to_string, from_str"]
    /\ UNCHANGED <<current_player, ops>>
    /\ UNCHANGED <<scoreVars, sessionVars>>

\* player.get_random_word(&dictionary), of players/mod.rs
GetRandomWord ==
    /\ ret' \in get_random_word(current_player, Dictionary)
    /\ last_op' = [op |-> "get_random_word"]
    /\ UNCHANGED <<current_player, ops>>
    /\ UNCHANGED <<scoreVars, sessionVars>>

\* player.get_random_word(&dictionary), of players.rs
PlayersRsGetRandomWord ==
    /\ ret' \in players_rs_get_random_word(current_player, Dictionary)
    /\ last_op' = [op |-> "players.rs get_random_word"]
    /\ UNCHANGED <<current_player, ops>>
    /\ UNCHANGED <<scoreVars, sessionVars>>

NextRecord ==
    \/ AddWonWord
    \/ AddLostWord
    \/ ToStringFromStr
    \/ GetRandomWord
    \/ PlayersRsGetRandomWord

SpecRecord ==
    InitRecord /\ [][NextRecord]_vars

(***************************************************************************)
(* PlayerInfo::from_str on the text of a player file.                      *)
(***************************************************************************)
\* A line "key: value", and the same line with the space of its delimiter
\* left out.
EntryLines(key, values) ==
    { WriteLine(key, v) : v \in values }
        \cup { key \o << ":" >> \o (CHOOSE v \in values : TRUE) \o << NL >> }

\* What a file may hold where a number is expected.
NumberTexts ==
    { << "1" >>, << "1", "0" >>, << "+", "1" >>, << "-", "1" >>, << "x" >>, << >> }

\* What a file may hold as the guess distribution: six numbers, three, seven,
\* an element that is no number, an empty element, and nothing.
NumGuessesTexts ==
    { << "0", ",", "0", ",", "1", ",", "0", ",", "0", ",", "0" >>,
      << "0", ",", "0", ",", "1" >>,
      << "0", ",", "0", ",", "1", ",", "0", ",", "0", ",", "0", ",", "7" >>,
      << "0", ",", "x", ",", "1", ",", "0", ",", "0", ",", "0" >>,
      << "0", ",", ",", "1", ",", "0", ",", "0", ",", "0" >>,
      << >> }

\* The texts of five lines.
FiveLineTexts ==
    { l1 \o l2 \o l3 \o l4 \o l5 :
        l1 \in EntryLines(KeyUsername, {<< "a", "l" >>}),
        l2 \in EntryLines(KeyWordsPlayed, {DictWords[1], << >>}),
        l3 \in EntryLines(KeyNumGuesses, NumGuessesTexts),
        l4 \in EntryLines(KeyMaxWinStreak, NumberTexts),
        l5 \in EntryLines(KeyCurWinStreak, NumberTexts) }

\* The text to_string gives for a record that has won one game.
GoodText ==
    PlayerInfo_fmt(PlayerInfo_load(<< "a", "l" >>, {DictWords[1]},
                                   << 0, 0, 1, 0, 0, 0 >>, 1, 1),
                   << DictWords[1] >>)

\* That text with another number of lines, with no newline at its end and
\* with a carriage return before each newline.
OtherTexts ==
    { << >>,
      WriteLine(KeyUsername, << "a", "l" >>),
      SubSeq(GoodText, 1, Len(GoodText) - Len(WriteLine(KeyCurWinStreak, << "1" >>))),
      GoodText \o << NL >>,
      GoodText \o WriteLine(KeyCurWinStreak, << "1" >>),
      SubSeq(GoodText, 1, Len(GoodText) - 1),
      Join(Lines(GoodText), << CR, NL >>) \o << CR, NL >> }

PlayerTexts ==
    FiveLineTexts \cup OtherTexts

InitParse ==
    /\ current_player = NoPlayer
    /\ last_op = NoOp
    /\ ret = NoOp
    /\ ops = 0
    /\ ScoreIdle
    /\ SessionIdle

\* PlayerInfo::from_str(player_data, bad_data_err)
FromStr ==
    /\ last_op = NoOp
    /\ \E player_data \in PlayerTexts :
          ret' = [text |-> player_data, parsed |-> from_str(player_data)]
    /\ last_op' = [op |-> "from_str"]
    /\ UNCHANGED <<current_player, ops>>
    /\ UNCHANGED <<scoreVars, sessionVars>>

\* PlayerInfo::from_file(filename) of players.rs, once the file is read
PlayersRsFromFile ==
    /\ last_op = NoOp
    /\ \E file_contents \in PlayerTexts :
          ret' = [ text |-> file_contents,
                   parsed |-> players_rs_from_file(file_contents) ]
    /\ last_op' = [op |-> "from_file"]
    /\ UNCHANGED <<current_player, ops>>
    /\ UNCHANGED <<scoreVars, sessionVars>>

NextParse ==
    \/ FromStr
    \/ PlayersRsFromFile

SpecParse ==
    InitParse /\ [][NextParse]_vars

(***************************************************************************)
(* Strings: the std operations the console uses.                           *)
(***************************************************************************)
abc ==
    << "a", "b", "c", "d", "e", "f", "g", "h", "i", "j", "k", "l", "m",
       "n", "o", "p", "q", "r", "s", "t", "u", "v", "w", "x", "y", "z" >>

TAB == "\t"

Whitespace ==
    { " ", TAB, NL, CR }

\* char::to_lowercase, on the characters of the model
LowerChar(c) ==
    IF \E i \in 1..26 : ABC[i] = c
    THEN abc[LetterIndexOf[c] + 1]
    ELSE c

\* u8::to_ascii_uppercase
UpperChar(c) ==
    IF \E i \in 1..26 : abc[i] = c
    THEN ABC[CHOOSE i \in 1..26 : abc[i] = c]
    ELSE c

\* str::to_lowercase, str::make_ascii_lowercase
to_lowercase(s) ==
    [i \in 1..Len(s) |-> LowerChar(s[i])]

\* str::make_ascii_uppercase
make_ascii_uppercase(s) ==
    [i \in 1..Len(s) |-> UpperChar(s[i])]

\* str::trim
trim(s) ==
    LET kept == { i \in 1..Len(s) : s[i] \notin Whitespace }
        first == CHOOSE i \in kept : \A j \in kept : i <= j
        last == CHOOSE i \in kept : \A j \in kept : j <= i
    IN  IF kept = {} THEN << >> ELSE SubSeq(s, first, last)

\* str::parse::<isize>: an optional sign and at least one digit.
ParseIsize(s) ==
    IF Len(s) >= 1 /\ s[1] = "-"
    THEN LET rest == Tail(s)
             magnitude == ParseUsize(rest)
         IN  IF Len(rest) >= 1 /\ rest[1] # "+" /\ magnitude.ok
             THEN [ok |-> TRUE, value |-> 0 - magnitude.value]
             ELSE [ok |-> FALSE]
    ELSE ParseUsize(s)

\* The characters of the model in the order of their bytes: the order of
\* String, by which a BTreeSet<String> iterates.
ByteOrder ==
    << TAB, NL, CR, " ", "+", ",", "-" >> \o Digits \o << ":" >> \o ABC \o abc

Byte(c) ==
    CHOOSE i \in 1..Len(ByteOrder) : ByteOrder[i] = c

\* a < b, for two strings
StrLess(a, b) ==
    \E k \in 1..Len(b) :
        /\ k - 1 <= Len(a)
        /\ SubSeq(a, 1, k - 1) = SubSeq(b, 1, k - 1)
        /\ \/ k > Len(a)
           \/ Byte(a[k]) < Byte(b[k])

\* BTreeSet::iter: the strings of S in ascending order.
RECURSIVE Ascending(_)

Ascending(S) ==
    IF S = {}
    THEN << >>
    ELSE LET least == CHOOSE x \in S : \A y \in S \ {x} : StrLess(x, y)
         IN  << least >> \o Ascending(S \ {least})

(***************************************************************************)
(* players/mod.rs: PlayerInfo::get_stats.                                  *)
(***************************************************************************)
KeyNumWordsPlayed ==
    << "N", "u", "m", "b", "e", "r", " ", "o", "f", " ", "W", "o", "r", "d", "s",
       " ", "P", "l", "a", "y", "e", "d" >>
KeyWinRate ==
    << "W", "i", "n", " ", "R", "a", "t", "e" >>
GuessDistributionLine ==
    << "G", "u", "e", "s", "s", " ", "D", "i", "s", "t", "r", "i", "b", "u", "t",
       "i", "o", "n", ":" >>

PERCENT == "%"
BAR == "="

RECURSIVE Sum(_, _)
\* num_guesses.iter().sum::<usize>(), from entry i on
Sum(list, i) ==
    IF i > Len(list) THEN 0 ELSE list[i] + Sum(list, i + 1)

RECURSIVE MaxFrom(_, _)
\* num_guesses.iter().max(), from entry i on (the array is never empty)
MaxFrom(list, i) ==
    IF i >= Len(list) THEN list[i] ELSE Max(list[i], MaxFrom(list, i + 1))

\* (num as f64 / den as f64).round(), for num >= 0 and den > 0: the nearest
\* integer, and the larger one when two are as near. The f64 quotient rounds
\* as the exact one does while the numbers are as small as the model's.
RoundDiv(num, den) ==
    (2 * num + den) \div (2 * den)

\* "=".repeat(num_bars)
Repeat(c, n) ==
    [k \in 1..n |-> c]

\* The win rate cut off below instead of rounded.
win_rate_truncated(self) ==
    IF self.words_played = {}
    THEN 0
    ELSE (100 * Sum(self.num_guesses, 1)) \div Cardinality(self.words_played)

\* let win_rate = if self.words_played.is_empty() { 0 } else { ... }
win_rate(self) ==
    IF self.words_played = {}
    THEN 0
    ELSE RoundDiv(100 * Sum(self.num_guesses, 1),
                  Cardinality(self.words_played))

\* The bars scaled to the sum of the buckets instead of the largest one.
num_bars_of_sum(self, num_guess) ==
    LET sum_num_guesses == Sum(self.num_guesses, 1)
    IN  IF sum_num_guesses = 0
        THEN 0
        ELSE RoundDiv(12 * num_guess, sum_num_guesses)

\* let num_bars = (bar_factor * *num_guess as f64).round() as usize, where
\* bar_factor is 12.0 / max_num_guesses. When the largest bucket is 0 the
\* factor is infinite and its product with 0.0 is not a number, which the
\* cast makes 0.
num_bars(self, num_guess) ==
    LET max_num_guesses == MaxFrom(self.num_guesses, 1)
    IN  IF max_num_guesses = 0
        THEN 0
        ELSE RoundDiv(12 * num_guess, max_num_guesses)

\* writeln!(stats, "{}: {bars} {num_guess}", i + 1) for bucket i on
RECURSIVE DistributionRows(_, _)

DistributionRows(self, i) ==
    IF i > NumBuckets
    THEN << >>
    ELSE WriteLine(usize_to_string(i),
                   Repeat(BAR, num_bars(self, self.num_guesses[i]))
                       \o << " " >> \o usize_to_string(self.num_guesses[i]))
             \o DistributionRows(self, i + 1)

\* PlayerInfo::get_stats
get_stats(self) ==
    trim(WriteLine(KeyNumWordsPlayed,
                   usize_to_string(Cardinality(self.words_played)))
            \o WriteLine(KeyWinRate,
                         usize_to_string(win_rate(self)) \o << PERCENT >>)
            \o WriteLine(KeyCurWinStreak, usize_to_string(self.cur_win_streak))
            \o WriteLine(KeyMaxWinStreak, usize_to_string(self.max_win_streak))
            \o GuessDistributionLine \o << NL >>
            \o DistributionRows(self, 1))

(***************************************************************************)
(* The statistics of one PlayerInfo built by PlayerInfo::load.             *)
(***************************************************************************)
\* The largest number a bucket of the guess distribution holds.
MaxCount == 5

Counts ==
    { 0, 1, MaxCount }

\* The sets of words played: none, and the first words of the list.
StatsWordSets ==
    { { DictWords[i] : i \in 1..k } : k \in 0..(DictSize + 1) }

StatsRecords ==
    { PlayerInfo_load(<< "a", "l" >>, words_played, num_guesses, 0, 0) :
        words_played \in StatsWordSets,
        num_guesses \in [1..NumBuckets -> Counts] }

InitStats ==
    /\ current_player \in StatsRecords
    /\ last_op = NoOp
    /\ ret = NoOp
    /\ ops = 0
    /\ ScoreIdle
    /\ SessionIdle

\* player.get_stats()
GetStats ==
    /\ last_op = NoOp
    /\ ret' = [stats |-> get_stats(current_player)]
    /\ last_op' = [op |-> "get_stats"]
    /\ UNCHANGED <<current_player, ops>>
    /\ UNCHANGED <<scoreVars, sessionVars>>

NextStats ==
    GetStats

SpecStats ==
    InitStats /\ [][NextStats]_vars

(***************************************************************************)
(* Standard input and the files.                                           *)
(***************************************************************************)
\* stdin().read_line: an error, or a line (empty at the end of the input).
ReadError ==
    [ok |-> FALSE]

Line(l) ==
    [ok |-> TRUE, line |-> l]

\* A file that does not exist, and a file holding text.
NoFile ==
    [exists |-> FALSE, text |-> << >>]

FileOf(text) ==
    [exists |-> TRUE, text |-> text]

\* What File::create followed by buffered writes may do to a file: write it;
\* fail to create it, which the caller sees; or create it and lose the
\* buffered text when the BufWriter is dropped, which the caller does not
\* see (neither function flushes, and drop ignores the error).
WriteOutcomes ==
    { "written", "create failed", "not flushed" }

Write(file, text, outcome) ==
    CASE outcome = "written" -> [ok |-> TRUE, file |-> FileOf(text)]
      [] outcome = "create failed" -> [ok |-> FALSE, file |-> file]
      [] outcome = "not flushed" -> [ok |-> TRUE, file |-> FileOf(<< >>)]

\* writeln!(writer, "{}", username) for each username in turn
RECURSIVE WriteLines(_)

WriteLines(names) ==
    IF names = << >>
    THEN << >>
    ELSE Head(names) \o << NL >> \o WriteLines(Tail(names))

\* save_usernames(usernames, USERNAMES_FILENAME)
save_usernames(names, file, outcome) ==
    Write(file, WriteLines(Ascending(names)), outcome)

\* fs::remove_file
RemoveOutcomes ==
    { "removed", "remove failed" }

remove_file(file, outcome) ==
    IF outcome = "removed" /\ file.exists THEN NoFile ELSE file

\* PlayerInfo::from_file: Ok(None) when the file cannot be opened, else
\* what from_str makes of its text.
from_file_contents(parsed) ==
    IF parsed.ok
    THEN [ok |-> TRUE, some |-> TRUE, player |-> parsed.player]
    ELSE [ok |-> FALSE]

\* from_file handing the failure to open the file to its caller.
from_file_open_error(file) ==
    IF ~file.exists
    THEN [ok |-> FALSE]
    ELSE from_file_contents(from_str(file.text))

from_file(file) ==
    IF ~file.exists
    THEN [ok |-> TRUE, some |-> FALSE]
    ELSE from_file_contents(from_str(file.text))

(***************************************************************************)
(* console_app::main_menu                                                  *)
(***************************************************************************)
None ==
    [some |-> FALSE]

Some(v) ==
    [some |-> TRUE, value |-> v]

Quit ==
    << ":", "q" >>

\* request_username once the line is trimmed and in lower case
request_username_typed(names, username) ==
    IF username = Quit
    THEN [username |-> None, usernames |-> names]
    ELSE [username |-> Some(username), usernames |-> names \cup {username}]

\* request_username(usernames), given what read_line returns: the username
\* if any, and the set as the call leaves it.
request_username(names, read) ==
    IF ~read.ok
    THEN [username |-> None, usernames |-> names]
    ELSE request_username_typed(names, to_lowercase(trim(read.line)))

CorruptMessage == "Error: corrupt player database file"
HelloMessage == "Hello"

\* request_user_login starting a fresh record when the file is corrupt.
request_user_login_from_fresh(asked, player_info) ==
    [ player |-> Some(IF player_info.ok /\ player_info.some
                      THEN player_info.player
                      ELSE PlayerInfo_new(asked.username.value)),
      usernames |-> asked.usernames,
      entered |-> asked.username, out |-> HelloMessage ]

\* request_user_login(usernames): the player if any, the set as the call
\* leaves it, the username asked for and the message printed.
\* request_user_login once from_file has returned player_info
request_user_login_from(asked, player_info) ==
    IF ~player_info.ok
    THEN [ player |-> None, usernames |-> asked.usernames,
           entered |-> asked.username, out |-> CorruptMessage ]
    ELSE [ player |-> Some(IF player_info.some
                           THEN player_info.player
                           ELSE PlayerInfo_new(asked.username.value)),
           usernames |-> asked.usernames,
           entered |-> asked.username, out |-> HelloMessage ]

\* request_user_login once request_username has returned asked
request_user_login_as(asked, files) ==
    IF ~asked.username.some
    THEN [ player |-> None, usernames |-> asked.usernames,
           entered |-> None, out |-> "" ]
    ELSE request_user_login_from(asked, from_file(files[asked.username.value]))

request_user_login(names, files, read) ==
    request_user_login_as(request_username(names, read), files)

\* enum UserSelection
PlayGameSelection == 1
ViewStatsSelection == 2
LogOffSelection == 3
DeleteUserSelection == 4

\* UserSelection::try_from(v).ok()
UserSelection_try_from(v) ==
    IF v \in { PlayGameSelection, ViewStatsSelection, LogOffSelection,
               DeleteUserSelection }
    THEN Some(v)
    ELSE None

NotIntegerMessage == "Error: selection must be an integer"
InvalidSelectionMessage == "Error: invalid selection"

\* One turn of the loop of request_user_selection, given what read_line
\* returns: leave the loop with a selection or with None, or print a
\* message and ask again.
request_user_selection(read) ==
    IF ~read.ok
    THEN [done |-> TRUE, selection |-> None]
    ELSE LET selection == ParseIsize(trim(read.line))
         IN  IF ~selection.ok
             THEN [done |-> FALSE, out |-> NotIntegerMessage]
             ELSE LET user_selection == UserSelection_try_from(selection.value)
                  IN  IF user_selection.some
                      THEN [done |-> TRUE, selection |-> user_selection]
                      ELSE [done |-> FALSE, out |-> InvalidSelectionMessage]

(***************************************************************************)
(* The console state machine: console_app::run, main_menu::run, game::run. *)
(***************************************************************************)
\* The number of guesses of a game: (1..=6)
MaxGuesses == 6

al ==
    << "a", "l" >>

\* What one user may type at the username prompt: a name, the same name in
\* capitals with spaces around it, and ":q".
OneUserLines ==
    { << "a", "l", NL >>,
      << " ", "A", "L", " ", CR, NL >>,
      << ":", "Q", NL >> }

\* An empty line, and nothing at all (the end of the input).
BlankLines ==
    { << NL >>, << >> }

LoginLines ==
    OneUserLines \cup BlankLines

\* The runs explored: one user who starts up to MaxGames games, and two
\* users (the second has the empty name) who start one game fewer between
\* them. The standard input is open when a run starts.
Scripts ==
    { [login_lines |-> OneUserLines, games |-> MaxGames, input |-> "open"],
      [login_lines |-> LoginLines, games |-> MaxGames - 1, input |-> "open"] }

\* The usernames those lines stand for.
Users ==
    { to_lowercase(trim(l)) : l \in LoginLines } \ {Quit}

\* What the user may type at the selection prompt.
SelectionLines ==
    { << "1", NL >>, << "+", "2", NL >>, << " ", "3", NL >>, << "4", NL >>,
      << "5", NL >>, << "-", "1", NL >>, << "0", NL >>, << "y", NL >>,
      << >> }

\* What the user may answer when asked to confirm a deletion.
ConfirmationLines ==
    { << "y", NL >>, << " ", "Y", NL >>, << "n", NL >>, << NL >>, << >> }

\* What the user may type as a guess: each word of the dictionary in small
\* letters, a word that is too short, a word that is not in the dictionary,
\* and nothing at all.
GuessLines ==
    { to_lowercase(w) \o << NL >> : w \in Dictionary }
        \cup { << "a", "b", NL >>, << "z", "z", "z", "z", "z", NL >>, << >> }

\* What read_line may give: an error, or Ok with the line typed; once the
\* input has ended, an error or Ok with nothing read.
Reads(lines) ==
    IF script.input = "ended"
    THEN { ReadError, Line(<< >>) }
    ELSE { ReadError } \cup { Line(l) : l \in lines }

\* A record of one game won at the third guess, but with a maximum win
\* streak of 0 below its current win streak of 1, as a player file may hold
\* it.
StreakRecord ==
    PlayerInfo_load(al, {DictWords[1]}, << 0, 0, 1, 0, 0, 0 >>, 0, 1)

\* The player files the program may find when it starts: a file it wrote
\* earlier would be among them; these two it did not write.
ForeignFiles ==
    { PlayerInfo_fmt(StreakRecord, << DictWords[1] >>),
      WriteLine(KeyUsername, al) }

\* The disk when the program starts: no user yet, or one user with a file.
InitialDisks ==
    { [users |-> NoFile, players |-> [u \in Users |-> NoFile]] }
        \cup { [ users |-> FileOf(al \o << NL >>),
                 players |-> [u \in Users |->
                                 IF u = al THEN FileOf(t) ELSE NoFile] ] :
               t \in ForeignFiles }

NoGame ==
    /\ answer = NoPlayer
    /\ guess = NoGuess
    /\ colors = << >>
    /\ scored = FALSE

\* main (usernames read from users.txt), then console_app::run before its
\* first turn.
InitOn(disk) ==
    /\ users_file = disk.users
    /\ player_files = disk.players
    /\ usernames = Range(Lines(users_file.text))
    /\ script \in Scripts
    /\ state = "LogIn"
    /\ current_player = NoPlayer
    /\ entered = None
    /\ attempt = 0
    /\ out = ""
    /\ NoGame
    /\ last_op = NoOp
    /\ ret = NoOp
    /\ ops = 0

Init ==
    \E disk \in InitialDisks : InitOn(disk)

SaveErrorMessage == "Error: could not write to the user database"

\* ProgramState::LogIn
LogIn ==
    /\ state = "LogIn"
    /\ \E read \in Reads(script.login_lines) :
          \E login \in {request_user_login(usernames, player_files, read)} :
              /\ last_op' = [op |-> "request_user_login", read |-> read]
              /\ usernames' = login.usernames
              /\ entered' = login.entered
              /\ IF login.player.some
                 THEN /\ current_player' = login.player.value
                      /\ \E outcome \in WriteOutcomes :
                            \E saved \in {save_usernames(login.usernames,
                                                         users_file, outcome)} :
                                /\ users_file' = saved.file
                                /\ state' = IF saved.ok
                                            THEN "MainMenu"
                                            ELSE "Exit"
                                /\ out' = IF saved.ok
                                          THEN login.out
                                          ELSE SaveErrorMessage
                 ELSE /\ current_player' = NoPlayer
                      /\ users_file' = users_file
                      /\ state' = "Exit"
                      /\ out' = login.out
    /\ UNCHANGED <<player_files, attempt, script, scoreVars, ret, ops>>

AtMenu ==
    /\ state = "MainMenu"
    /\ attempt = 0

Selects(read, selection) ==
    LET r == request_user_selection(read)
    IN  r.done /\ r.selection = Some(selection)

\* request_user_selection: a line that is not a selection
InvalidSelection ==
    /\ AtMenu
    /\ \E read \in Reads(SelectionLines) :
          LET r == request_user_selection(read)
          IN  /\ ~r.done
              /\ out' = r.out
    /\ UNCHANGED <<state, attempt, usernames, entered, users_file,
                   player_files, script, scoreVars, current_player, ret, ops>>
    /\ last_op' = NoOp

\* request_user_selection: read_line fails
SelectionReadError ==
    /\ AtMenu
    /\ \E read \in Reads(SelectionLines) :
          LET r == request_user_selection(read)
          IN  r.done /\ ~r.selection.some
    /\ state' = "Exit"
    /\ out' = ""
    /\ UNCHANGED <<attempt, usernames, entered, users_file, player_files,
                   script, scoreVars, current_player, ret, ops>>
    /\ last_op' = NoOp

GameStartMessage == "Guess the 5-letter word in 6 or fewer guesses."

\* UserSelection::PlayGame, up to the first prompt of game::run. The
\* get_random_word of players/mod.rs returns a word or panics.
PlayGame ==
    /\ AtMenu
    /\ \E read \in Reads(SelectionLines) : Selects(read, PlayGameSelection)
    /\ \E r \in get_random_word(current_player, Dictionary) :
          IF r.panic
          THEN /\ state' = "Panicked"
               /\ out' = ""
               /\ UNCHANGED <<attempt, scoreVars, ops>>
          ELSE /\ ops < script.games
               /\ answer' = WordleAnswer_new(r.word)
               /\ guess' = NoGuess
               /\ colors' = << >>
               /\ scored' = FALSE
               /\ attempt' = 1
               /\ ops' = ops + 1
               /\ out' = GameStartMessage
               /\ state' = state
    /\ last_op' = NoOp
    /\ UNCHANGED <<usernames, entered, users_file, player_files, script,
                   current_player, ret>>

InGame ==
    /\ state = "MainMenu"
    /\ attempt \in 1..MaxGuesses

WriteErrorMessage ==
    "Error: could not write to user database file, progress has not been saved"

StatsMessage == "stats"

\* What game::run leaves behind: its won_game, and the guess scored last
\* with its colours when the game was played to its end.
GameResult(won_game, g, c) ==
    [op |-> "game::run", won_game |-> won_game, guess |-> g, colors |-> c]

\* main_menu::run once game::run has returned with the record player: print
\* the statistics, write the player's file, stay at the main menu.
AfterGame(player, outcome, result) ==
    /\ \E text \in PlayerInfo_to_string(player) :
          \E written \in {Write(player_files[player.username], text, outcome)} :
              /\ player_files' =
                    [player_files EXCEPT ![player.username] = written.file]
              /\ out' = IF written.ok THEN StatsMessage ELSE WriteErrorMessage
    /\ current_player' = player
    /\ attempt' = 0
    /\ answer' = NoPlayer
    /\ guess' = NoGuess
    /\ colors' = << >>
    /\ scored' = FALSE
    /\ last_op' = result
    /\ UNCHANGED <<state, usernames, entered, users_file, script, ret, ops>>

LengthMessage == "Error: guess must be 5 letters"
DictionaryMessage == "Error: guess must be a word in the dictionary"

\* What game::run makes of a line typed at its prompt.
ReadGuess(read) ==
    LET g == trim(make_ascii_uppercase(read.line))
    IN  IF Len(g) # WordLen
        THEN [valid |-> FALSE, out |-> LengthMessage]
        ELSE IF g \notin Dictionary
        THEN [valid |-> FALSE, out |-> DictionaryMessage]
        ELSE [valid |-> TRUE, guess |-> g]

\* game::run: a line that is not a valid guess
InvalidGuess ==
    /\ InGame
    /\ \E read \in Reads(GuessLines) :
          /\ read.ok
          /\ ~ReadGuess(read).valid
          /\ out' = ReadGuess(read).out
    /\ UNCHANGED <<state, attempt, usernames, entered, users_file,
                   player_files, script, scoreVars, current_player, ret, ops>>
    /\ last_op' = NoOp

\* game::run counting the game that a failed read cuts short as lost.
GuessReadError_records_loss ==
    /\ InGame
    /\ \E read \in Reads(GuessLines), outcome \in WriteOutcomes :
          /\ ~read.ok
          /\ AfterGame(add_lost_word(current_player, answer.word), outcome,
                       GameResult(Some(-1), NoGuess, << >>))

\* game::run: read_line fails, and the game is given up
GuessReadError ==
    /\ InGame
    /\ \E read \in Reads(GuessLines), outcome \in WriteOutcomes :
          /\ ~read.ok
          /\ AfterGame(current_player, outcome,
                       GameResult(Some(-1), NoGuess, << >>))

\* game::run with (1..6) for (1..=6): the game is lost at the fifth guess.
Guess_five_rounds ==
    /\ InGame
    /\ \E read \in Reads(GuessLines), outcome \in WriteOutcomes :
          /\ read.ok
          /\ ReadGuess(read).valid
          /\ \E g \in {ReadGuess(read).guess} :
             \E r \in {check_guess(answer, g)} :
             LET won == \A i \in 1..WordLen : r.colors[i] = Correct
             IN  IF won
                 THEN AfterGame(add_won_word(current_player, r.self.word,
                                             attempt), outcome,
                                GameResult(Some(attempt), g, r.colors))
                 ELSE IF attempt >= MaxGuesses - 1
                 THEN AfterGame(add_lost_word(current_player, r.self.word),
                                outcome, GameResult(None, g, r.colors))
                 ELSE /\ answer' = r.self
                      /\ guess' = g
                      /\ colors' = r.colors
                      /\ scored' = TRUE
                      /\ attempt' = attempt + 1
                      /\ out' = "colors"
                      /\ last_op' = NoOp
                      /\ UNCHANGED <<state, usernames, entered, users_file,
                                     player_files, script, current_player,
                                     ret, ops>>

\* game::run: a valid guess is scored; the game goes on, is won or is lost
Guess ==
    /\ InGame
    /\ \E read \in Reads(GuessLines), outcome \in WriteOutcomes :
          /\ read.ok
          /\ ReadGuess(read).valid
          /\ \E g \in {ReadGuess(read).guess} :
             \E r \in {check_guess(answer, g)} :
             LET won == \A i \in 1..WordLen : r.colors[i] = Correct
             IN  IF won
                 THEN AfterGame(add_won_word(current_player, r.self.word,
                                             attempt), outcome,
                                GameResult(Some(attempt), g, r.colors))
                 ELSE IF attempt = MaxGuesses
                 THEN AfterGame(add_lost_word(current_player, r.self.word),
                                outcome, GameResult(None, g, r.colors))
                 ELSE /\ answer' = r.self
                      /\ guess' = g
                      /\ colors' = r.colors
                      /\ scored' = TRUE
                      /\ attempt' = attempt + 1
                      /\ out' = "colors"
                      /\ last_op' = NoOp
                      /\ UNCHANGED <<state, usernames, entered, users_file,
                                     player_files, script, current_player,
                                     ret, ops>>

\* UserSelection::ViewStats saving the record as the end of a game does.
ViewStats_saves ==
    /\ AtMenu
    /\ \E read \in Reads(SelectionLines) : Selects(read, ViewStatsSelection)
    /\ out' = StatsMessage
    /\ \E text \in PlayerInfo_to_string(current_player) :
          player_files' =
              [player_files EXCEPT ![current_player.username] = FileOf(text)]
    /\ UNCHANGED <<state, attempt, usernames, entered, users_file,
                   script, scoreVars, current_player, ret, ops>>
    /\ last_op' = NoOp

\* UserSelection::ViewStats
ViewStats ==
    /\ AtMenu
    /\ \E read \in Reads(SelectionLines) : Selects(read, ViewStatsSelection)
    /\ out' = StatsMessage
    /\ UNCHANGED <<state, attempt, usernames, entered, users_file,
                   player_files, script, scoreVars, current_player, ret, ops>>
    /\ last_op' = NoOp

\* UserSelection::LogOff
LogOff ==
    /\ AtMenu
    /\ \E read \in Reads(SelectionLines) : Selects(read, LogOffSelection)
    /\ state' = "LogIn"
    /\ out' = ""
    /\ UNCHANGED <<attempt, usernames, entered, users_file, player_files,
                   script, scoreVars, current_player, ret, ops>>
    /\ last_op' = NoOp

AbortedMessage == "Action aborted"

\* UserSelection::DeleteUser comparing the answer as it was typed, without
\* make_ascii_lowercase.
ConfirmDeleteUser_case_sensitive ==
    /\ AtMenu
    /\ \E read \in Reads(SelectionLines) : Selects(read, DeleteUserSelection)
    /\ \E read \in Reads(ConfirmationLines) :
          /\ last_op' = [op |-> "user_confirmation", read |-> read]
          /\ IF read.ok /\ trim(read.line) = << "y" >>
             THEN /\ state' = "DeleteUser"
                  /\ out' = ""
             ELSE /\ state' = "MainMenu"
                  /\ out' = AbortedMessage
    /\ UNCHANGED <<attempt, usernames, entered, users_file, player_files,
                   script, scoreVars, current_player, ret, ops>>

\* UserSelection::DeleteUser: ask for a confirmation
ConfirmDeleteUser ==
    /\ AtMenu
    /\ \E read \in Reads(SelectionLines) : Selects(read, DeleteUserSelection)
    /\ \E read \in Reads(ConfirmationLines) :
          /\ last_op' = [op |-> "user_confirmation", read |-> read]
          /\ IF read.ok /\ trim(to_lowercase(read.line)) = << "y" >>
             THEN /\ state' = "DeleteUser"
                  /\ out' = ""
             ELSE /\ state' = "MainMenu"
                  /\ out' = AbortedMessage
    /\ UNCHANGED <<attempt, usernames, entered, users_file, player_files,
                   script, scoreVars, current_player, ret, ops>>

\* ProgramState::DeleteUser going back to the main menu of the deleted user.
DeleteUser_to_main_menu ==
    /\ state = "DeleteUser"
    /\ \E removal \in RemoveOutcomes, outcome \in WriteOutcomes :
          \E username \in {current_player.username},
             saved \in {save_usernames(usernames \ {current_player.username},
                                       users_file, outcome)} :
              /\ usernames' = usernames \ {username}
              /\ player_files' =
                    [player_files EXCEPT
                        ![username] = remove_file(@, removal)]
              /\ users_file' = saved.file
              /\ state' = IF saved.ok THEN "MainMenu" ELSE "Exit"
              /\ out' = IF saved.ok THEN "" ELSE SaveErrorMessage
              /\ last_op' = [op |-> "remove_file", outcome |-> removal]
    /\ UNCHANGED <<attempt, entered, script, scoreVars, current_player, ret, ops>>

\* ProgramState::DeleteUser saving the registry first and deleting the file
\* of the player once that has succeeded.
DeleteUser_persist_first ==
    /\ state = "DeleteUser"
    /\ \E removal \in RemoveOutcomes, outcome \in WriteOutcomes :
          \E username \in {current_player.username},
             saved \in {save_usernames(usernames \ {current_player.username},
                                       users_file, outcome)} :
              /\ usernames' = usernames \ {username}
              /\ users_file' = saved.file
              /\ player_files' =
                    IF saved.ok
                    THEN [player_files EXCEPT
                             ![username] = remove_file(@, removal)]
                    ELSE player_files
              /\ state' = IF saved.ok THEN "LogIn" ELSE "Exit"
              /\ out' = IF saved.ok THEN "" ELSE SaveErrorMessage
              /\ last_op' = [op |-> "remove_file", outcome |-> removal]
    /\ UNCHANGED <<attempt, entered, script, scoreVars, current_player, ret, ops>>

\* ProgramState::DeleteUser
DeleteUser ==
    /\ state = "DeleteUser"
    /\ \E removal \in RemoveOutcomes, outcome \in WriteOutcomes :
          \E username \in {current_player.username},
             saved \in {save_usernames(usernames \ {current_player.username},
                                       users_file, outcome)} :
              /\ usernames' = usernames \ {username}
              /\ player_files' =
                    [player_files EXCEPT
                        ![username] = remove_file(@, removal)]
              /\ users_file' = saved.file
              /\ state' = IF saved.ok THEN "LogIn" ELSE "Exit"
              /\ out' = IF saved.ok THEN "" ELSE SaveErrorMessage
              /\ last_op' = [op |-> "remove_file", outcome |-> removal]
    /\ UNCHANGED <<attempt, entered, script, scoreVars, current_player, ret, ops>>

Next ==
    \/ LogIn
    \/ InvalidSelection
    \/ SelectionReadError
    \/ PlayGame
    \/ InvalidGuess
    \/ GuessReadError
    \/ Guess
    \/ ViewStats
    \/ LogOff
    \/ ConfirmDeleteUser
    \/ DeleteUser

Spec ==
    Init /\ [][Next]_vars

\* The standard input reaches its end (Ctrl-D, a closed pipe) while the
\* program runs.
InputEnds ==
    /\ state \in {"LogIn", "MainMenu", "DeleteUser"}
    /\ script.input = "open"
    /\ script' = [script EXCEPT !.input = "ended"]
    /\ UNCHANGED <<state, attempt, usernames, entered, users_file,
                   player_files, out, scoreVars, recordVars>>

NextEnded ==
    \/ Next
    \/ InputEnds

\* The console state machine with an input that may end at any moment.
SpecEnded ==
    Init /\ [][NextEnded]_vars

\* A users.txt the program did not write: main reads its lines as they are,
\* and this one holds a name in capitals.
ForeignRegistry ==
    FileOf(<< "A", "L", NL >>)

InitForeignRegistry ==
    InitOn([users |-> ForeignRegistry, players |-> [u \in Users |-> NoFile]])

\* The console state machine started on that registry.
SpecForeignRegistry ==
    InitForeignRegistry /\ [][Next]_vars

\* An al.txt the program did not write: the record of another username, as
\* a copy of that player's file would hold it.
bo ==
    << "b", "o" >>

ForeignPlayer ==
    PlayerInfo_load(bo, {DictWords[1]}, << 0, 0, 1, 0, 0, 0 >>, 1, 1)

InitForeignPlayer ==
    InitOn([ users |-> FileOf(al \o << NL >>),
             players |-> [u \in Users \cup {bo} |->
                             IF u = al
                             THEN FileOf(PlayerInfo_fmt(ForeignPlayer,
                                                        << DictWords[1] >>))
                             ELSE NoFile] ])

\* The console state machine started on that file.
SpecForeignPlayer ==
    InitForeignPlayer /\ [][Next]_vars

(***************************************************************************)
(* main: the dictionary read from its file, and the words of it that reach  *)
(* WordleAnswer::new and check_guess.                                      *)
(***************************************************************************)
\* The number of lines of a dictionary file.
MaxDictLines == 3

\* dict_file_contents.lines().filter(|s| s.len() == 5)
\*     .map(str::to_uppercase).collect()
read_dictionary(text) ==
    { make_ascii_uppercase(l) :
        l \in { x \in Range(Lines(text)) : Len(x) = WordLen } }

IsCapital(c) ==
    \E i \in 1..26 : ABC[i] = c

\* c as usize - 'A' as usize, used as an index of letter_counts: for a
\* character below 'A' the subtraction overflows (a panic in a debug build,
\* a huge index in a release build), for one above 'Z' the index is 26 or
\* more; an index outside the array panics.
IndexPanics(c) ==
    ~IsCapital(c)

\* WordleAnswer::new(word): the answer, or a panic
WordleAnswer_new_on(word) ==
    IF \E i \in 1..Len(word) : IndexPanics(word[i])
    THEN Panic
    ELSE [panic |-> FALSE, answer |-> WordleAnswer_new(word)]

\* answer.check_guess(g): the colours, or a panic. The index of a letter of
\* the guess is computed at every position that is Correct and, in the
\* second loop, at every position that is not.
check_guess_on(self, g) ==
    IF \E i \in 1..Len(g) : IndexPanics(g[i])
    THEN Panic
    ELSE [panic |-> FALSE, result |-> check_guess(self, g)]

\* The lines a dictionary file may hold: two words, a line of five
\* characters that are not all letters, and a line that is too short.
DictionaryLines ==
    { << "t", "r", "a", "c", "e" >>, << "r", "e", "a", "c", "t" >>,
      << "t", "r", "-", "c", "e" >>, << "a", "b" >> }

DictionaryFiles ==
    { WriteLines(lines) :
        lines \in UNION { [1..n -> DictionaryLines] : n \in 0..MaxDictLines } }

InitDictionary ==
    /\ SessionIdle
    /\ NoGame
    /\ current_player = NoPlayer
    /\ ops = 0
    /\ last_op = NoOp
    /\ \E text \in DictionaryFiles : ret = [file |-> text]

\* main: the dictionary is read
ReadDictionary ==
    /\ last_op = NoOp
    /\ ret' = [file |-> ret.file, dictionary |-> read_dictionary(ret.file)]
    /\ last_op' = [op |-> "read_dictionary"]
    /\ UNCHANGED <<scoreVars, current_player, ops, sessionVars>>

\* main_menu::run: a word of the dictionary becomes the answer of a game
NewAnswer ==
    /\ last_op.op = "read_dictionary"
    /\ \E w \in ret.dictionary :
          \E r \in {WordleAnswer_new_on(w)} :
              /\ last_op' = [op |-> "WordleAnswer::new", word |-> w]
              /\ IF r.panic
                 THEN state' = "Panicked" /\ answer' = answer
                 ELSE state' = state /\ answer' = r.answer
    /\ UNCHANGED <<guess, colors, scored, current_player, ret, ops, attempt,
                   usernames, entered, users_file, player_files, out, script>>

\* game::run: a word of the dictionary is accepted as a guess and scored
CheckGuess ==
    /\ last_op.op = "WordleAnswer::new"
    /\ state # "Panicked"
    /\ \E g \in ret.dictionary :
          \E r \in {check_guess_on(answer, g)} :
              /\ last_op' = [op |-> "check_guess", word |-> g]
              /\ guess' = g
              /\ IF r.panic
                 THEN /\ state' = "Panicked"
                      /\ UNCHANGED <<answer, colors, scored>>
                 ELSE /\ state' = state
                      /\ answer' = r.result.self
                      /\ colors' = r.result.colors
                      /\ scored' = TRUE
    /\ UNCHANGED <<current_player, ret, ops, attempt, usernames, entered,
                   users_file, player_files, out, script>>

NextDictionary ==
    \/ ReadDictionary
    \/ NewAnswer
    \/ CheckGuess

SpecDictionary ==
    InitDictionary /\ [][NextDictionary]_vars

(***************************************************************************)
(* Claims about check_guess.                                               *)
(***************************************************************************)
Positions ==
    1..WordLen

\* The positions of word w that hold letter L.
Holding(w, L) ==
    { i \in DOMAIN w : w[i] = L }

\* The positions of the scored guess that hold L and got verdict v.
Marked(L, v) ==
    { i \in Holding(guess, L) : colors[i] = v }

\* The k leftmost positions of the set S.
Leftmost(S, k) ==
    { i \in S : Cardinality({ j \in S : j < i }) < k }

\* C1: for every letter L, the positions of the guess that hold L and are
\* marked Correct or Present are at most as many as the occurrences of L in
\* the answer.
C1_CountBound ==
    scored =>
        \A L \in Letters :
            Cardinality(Marked(L, Correct)) + Cardinality(Marked(L, Present))
                <= Cardinality(Holding(answer.word, L))

\* A guess with more copies of a letter than the answer has: answer AABBB,
\* guess BBBBA, where the fourth B finds no copy left.
C1_Witness ==
    /\ scored
    /\ answer.word = <<"A", "A", "B", "B", "B">>
    /\ guess = <<"B", "B", "B", "B", "A">>
    /\ colors = <<Present, Incorrect, Correct, Correct, Present>>

\* C2: position i is Correct exactly when the guess and the answer hold the
\* same letter there, and every position the first pass marked Correct is
\* Correct in the result.
C2_CorrectExact ==
    scored =>
        /\ \A i \in Positions : (colors[i] = Correct) <=> (guess[i] = answer.word[i])
        /\ \A i \in Positions :
              GreenPass(answer.word, guess, 1, CheckStart(answer)).colors[i] = Correct
                  => colors[i] = Correct

\* A Correct position whose letter still has copies left for the second pass.
C2_Witness ==
    /\ scored
    /\ answer.word = <<"A", "A", "B", "B", "B">>
    /\ guess = <<"A", "Z", "A", "Z", "Z">>
    /\ colors = <<Correct, Incorrect, Present, Incorrect, Incorrect>>

\* C3: for every letter L the Present positions are the leftmost k positions
\* among those holding L that are not Correct, k being the smaller of their
\* number and the occurrences of L in the answer less the Correct positions
\* holding L; the other positions that are not Correct are Incorrect.
C3_LeftmostPresent ==
    scored =>
        \A L \in Letters :
            LET notCorrect == Holding(guess, L) \ Marked(L, Correct)
                k == Min(Cardinality(notCorrect),
                         Cardinality(Holding(answer.word, L))
                             - Cardinality(Marked(L, Correct)))
            IN  /\ Marked(L, Present) = Leftmost(notCorrect, k)
                /\ \A i \in notCorrect \ Leftmost(notCorrect, k) :
                       colors[i] = Incorrect

\* Answer AZZAZ, guess AAABB: Correct, Present, Incorrect, Incorrect, Incorrect.
C3_Witness ==
    /\ scored
    /\ answer.word = <<"A", "Z", "Z", "A", "Z">>
    /\ guess = <<"A", "A", "A", "B", "B">>
    /\ colors = <<Correct, Present, Incorrect, Incorrect, Incorrect>>

(***************************************************************************)
(* Claims about PlayerInfo.                                                *)
(***************************************************************************)
TRACE ==
    DictWords[1]

\* The step is a call of the method op that recorded a game.
Recorded(op) ==
    /\ ops' = ops + 1
    /\ last_op'.op = op

\* C5: serializing a record reached from a new one by add_won_word and
\* add_lost_word, the new one included, and parsing the text gives back the
\* record.
C5_RoundTrip ==
    last_op.op = "to_string, from_str" =>
        ret.parsed = [ok |-> TRUE, player |-> current_player]

\* C6: add_won_word(word, n) adds the word, adds one to bucket n - 1 and to
\* no other, adds one to the current streak, makes the maximum streak the
\* larger of itself and the new current streak and keeps the username; on a
\* new record, TRACE in 3 gives {TRACE}, [0,0,1,0,0,0], 1 and 1.
C6_RecordWin ==
    [][ Recorded("add_won_word") =>
          LET old == current_player
              new == current_player'
              word == last_op'.word
              n == last_op'.num_guesses
          IN  /\ new.words_played = old.words_played \cup {word}
              /\ \A i \in 1..NumBuckets :
                    new.num_guesses[i] =
                        IF i = n THEN old.num_guesses[i] + 1 ELSE old.num_guesses[i]
              /\ new.cur_win_streak = old.cur_win_streak + 1
              /\ new.max_win_streak = Max(old.max_win_streak, new.cur_win_streak)
              /\ new.username = old.username
              /\ (old = PlayerInfo_new(old.username) /\ word = TRACE /\ n = 3) =>
                    /\ new.words_played = {TRACE}
                    /\ new.num_guesses = <<0, 0, 1, 0, 0, 0>>
                    /\ new.cur_win_streak = 1
                    /\ new.max_win_streak = 1
      ]_vars

\* A new record after add_won_word(TRACE, 3).
C6_Witness ==
    /\ last_op = [op |-> "add_won_word", word |-> TRACE, num_guesses |-> 3]
    /\ ops = 1
    /\ current_player.words_played = {TRACE}
    /\ current_player.num_guesses = <<0, 0, 1, 0, 0, 0>>
    /\ current_player.cur_win_streak = 1
    /\ current_player.max_win_streak = 1

\* C7: add_lost_word(word) adds the word and sets the current streak to 0,
\* and keeps the guess distribution, the maximum streak and the username;
\* so right after an add_won_word it leaves the current streak 0 and the
\* maximum streak as the win left it.
C7_RecordLoss ==
    [][ Recorded("add_lost_word") =>
          LET old == current_player
              new == current_player'
          IN  /\ new.words_played = old.words_played \cup {last_op'.word}
              /\ new.cur_win_streak = 0
              /\ new.num_guesses = old.num_guesses
              /\ new.max_win_streak = old.max_win_streak
              /\ new.username = old.username
              /\ last_op.op = "add_won_word" =>
                    /\ new.cur_win_streak = 0
                    /\ new.max_win_streak = old.max_win_streak
      ]_vars

\* A loss right after a first win: the streak of 1 stays the maximum.
C7_Witness ==
    /\ last_op.op = "add_lost_word"
    /\ ops = 2
    /\ Cardinality(current_player.words_played) = 2
    /\ current_player.cur_win_streak = 0
    /\ current_player.max_win_streak = 1

\* The outcomes the claim allows: each unplayed word of the dictionary.
UnplayedOutcomes ==
    { Returns(w) : w \in Dictionary \ current_player.words_played }

\* C10: while the dictionary holds a word not yet played, get_random_word
\* returns such a word, and each of them is a possible result.
C10_PicksUnplayed ==
    (current_player # NoPlayer /\ Dictionary \ current_player.words_played # {}) =>
        /\ get_random_word(current_player, Dictionary) = UnplayedOutcomes
        /\ players_rs_get_random_word(current_player, Dictionary) = UnplayedOutcomes

(***************************************************************************)
(* Claims about a session of the console state machine.                    *)
(***************************************************************************)
REACT ==
    DictWords[2]

\* C4: check_guess leaves the answer as WordleAnswer::new built it, so each
\* guess scored in a game, however many were scored before it, gets the
\* verdict the same guess gets from the answer when it is new.
C4_SameVerdict ==
    [][ (InGame' /\ scored') =>
            /\ InGame => answer' = answer
            /\ answer' = WordleAnswer_new(answer'.word)
            /\ colors' = check_guess(WordleAnswer_new(answer'.word), guess').colors
      ]_vars

\* The second guess of a game has been scored: REACT against TRACE, as the
\* first was.
C4_Witness ==
    /\ InGame
    /\ attempt = 3
    /\ scored
    /\ answer.word = TRACE
    /\ guess = REACT
    /\ colors = << Present, Present, Correct, Correct, Present >>

\* A player is logged in.
LoggedIn ==
    state \in {"MainMenu", "DeleteUser"}

\* C8: in every state of a session the record of the player logged in has a
\* current win streak no greater than its maximum win streak.
C8_StreakBound ==
    LoggedIn => current_player.cur_win_streak <= current_player.max_win_streak

\* C9: every step that leaves the player at the main menu keeps each word
\* played and lowers no bucket of the guess distribution.
C9_OnlyGrows ==
    [][ (state = "MainMenu" /\ state' = "MainMenu") =>
            /\ current_player.words_played \subseteq current_player'.words_played
            /\ \A i \in 1..NumBuckets :
                  current_player.num_guesses[i] <= current_player'.num_guesses[i]
      ]_vars

\* A player who had won TRACE at the third guess has now won REACT at the
\* second.
C9_Witness ==
    /\ AtMenu
    /\ ops = 1
    /\ current_player.words_played = {TRACE, REACT}
    /\ current_player.num_guesses = << 0, 1, 1, 0, 0, 0 >>
    /\ current_player.cur_win_streak = 2

NoWordsMessage == "There are no remaining words in the dictionary."

\* C11: when every word of the dictionary has been played, choosing to play
\* does not crash: the program reports that no words remain and stays at the
\* main menu with the same player, whose record and file are as they were.
C11_Exhausted ==
    [][ (PlayGame /\ Dictionary \ current_player.words_played = {}) =>
            /\ state' = "MainMenu"
            /\ out' = NoWordsMessage
            /\ current_player' = current_player
            /\ player_files' = player_files
      ]_vars

(***************************************************************************)
(* Claims about get_stats.                                                 *)
(***************************************************************************)
\* The lines of the statistics returned.
StatsLines ==
    Lines(ret.stats)

\* The number printed on a "Win Rate" line, before its percent sign.
WinRateShown(line) ==
    LET value == from_line(line).value
    IN  IF Len(value) > 0 /\ value[Len(value)] = PERCENT
        THEN ParseUsize(SubSeq(value, 1, Len(value) - 1))
        ELSE [ok |-> FALSE]

\* The number of bars printed on a row.
BarsShown(row) ==
    Cardinality({ k \in DOMAIN row : row[k] = BAR })

\* The sum and the largest of the six buckets.
HistogramSum ==
    current_player.num_guesses[1] + current_player.num_guesses[2]
        + current_player.num_guesses[3] + current_player.num_guesses[4]
        + current_player.num_guesses[5] + current_player.num_guesses[6]

HistogramMax ==
    CHOOSE m \in Range(current_player.num_guesses) :
        \A i \in 1..NumBuckets : current_player.num_guesses[i] <= m

\* C12: the win rate printed is an integer nearest to 100 times the sum of
\* the six buckets divided by the number of words played, and 0 when no word
\* was played.
C12_WinRate ==
    last_op.op = "get_stats" =>
        \A n \in {Cardinality(current_player.words_played)},
           shown \in {WinRateShown(StatsLines[2])} :
            /\ shown.ok
            /\ IF n = 0
               THEN shown.value = 0
               ELSE /\ 200 * HistogramSum - n <= 2 * n * shown.value
                    /\ 2 * n * shown.value <= 200 * HistogramSum + n

\* Three words played and two wins recorded: 66.67 is printed as 67%.
C12_Witness ==
    /\ last_op.op = "get_stats"
    /\ Cardinality(current_player.words_played) = 3
    /\ current_player.num_guesses = << 1, 0, 0, 0, 0, 1 >>
    /\ StatsLines[2] = KeyWinRate \o DELIM \o << "6", "7", PERCENT >>

\* C13: each row has a number of bars nearest to 12 times its count divided
\* by the largest count; no row has more than 12, a row with the largest
\* count, when that is not 0, has exactly 12, and when all six counts are 0
\* every row has none.
C13_Bars ==
    last_op.op = "get_stats" =>
        \A lines \in {StatsLines}, largest \in {HistogramMax} :
            /\ Len(lines) = 5 + NumBuckets
            /\ \A i \in 1..NumBuckets :
                  \A count \in {current_player.num_guesses[i]},
                     bars \in {BarsShown(lines[5 + i])} :
                      /\ bars <= 12
                      /\ (count = largest /\ largest # 0) => bars = 12
                      /\ largest = 0 => bars = 0
                      /\ largest # 0 =>
                            /\ 24 * count - largest <= 2 * largest * bars
                            /\ 2 * largest * bars <= 24 * count + largest

\* Counts 1 and 5: the row of the 5 has 12 bars and the row of the 1 has 2,
\* the nearest to 2.4.
C13_Witness ==
    /\ last_op.op = "get_stats"
    /\ current_player.num_guesses = << 1, MaxCount, 0, 0, 0, 0 >>
    /\ BarsShown(StatsLines[6]) = RoundDiv(12, MaxCount)
    /\ BarsShown(StatsLines[7]) = 12
    /\ BarsShown(StatsLines[8]) = 0

(***************************************************************************)
(* Claims about from_str.                                                  *)
(***************************************************************************)
\* The line holds no ": ".
LacksSeparator(line) ==
    ~\E i \in 1..(Len(line) - 1) : line[i] = ":" /\ line[i + 1] = " "

\* What follows the first ": " of a line that holds one.
AfterSeparator(line) ==
    LET first == CHOOSE i \in 1..(Len(line) - 1) :
                     /\ line[i] = ":" /\ line[i + 1] = " "
                     /\ \A j \in 1..(i - 1) : ~(line[j] = ":" /\ line[j + 1] = " ")
    IN  SubSeq(line, first + 2, Len(line))

\* The text is a non-negative integer: digits, after a plus sign or none.
NonNegativeInteger(s) ==
    LET digits == IF Len(s) > 0 /\ s[1] = "+" THEN Tail(s) ELSE s
    IN  /\ Len(digits) > 0
        /\ \A i \in 1..Len(digits) :
              digits[i] \in {"0", "1", "2", "3", "4", "5", "6", "7", "8", "9"}

\* The conditions under which the claim calls a record corrupt.
CorruptRecord(lines) ==
    \/ Len(lines) # 5
    \/ \E i \in 1..5 : LacksSeparator(lines[i])
    \/ \E item \in Range(Split(AfterSeparator(lines[3]), COMMA)) :
          ~NonNegativeInteger(item)
    \/ ~NonNegativeInteger(AfterSeparator(lines[4]))
    \/ ~NonNegativeInteger(AfterSeparator(lines[5]))

\* C14: from_str returns the error, and no record, when the text has not
\* exactly 5 lines, when one of the 5 lacks ": ", when an element of the
\* third line's list is no non-negative integer or when the value of the
\* fourth or fifth line is none; it returns a record otherwise.
C14_CorruptRecord ==
    last_op.op = "from_str" =>
        \A lines \in {Lines(ret.text)} :
            IF CorruptRecord(lines)
            THEN ret.parsed = [ok |-> FALSE]
            ELSE ret.parsed.ok /\ ret.parsed.player.username = << "a", "l" >>

\* A sixth line after five good ones: the text is turned away.
C14_Witness ==
    /\ last_op.op = "from_str"
    /\ ret.text = GoodText \o WriteLine(KeyCurWinStreak, << "1" >>)
    /\ ret.parsed = [ok |-> FALSE]

(***************************************************************************)
(* Claims about the text of a record.                                      *)
(***************************************************************************)
\* The line is "key: " followed by the decimal digits of n.
NumberLine(line, key, n) ==
    \A entry \in {from_line(line)} :
        /\ entry.some
        /\ entry.name = key
        /\ ParseUsize(entry.value) = [ok |-> TRUE, value |-> n]
        /\ entry.value[1] # "+"

\* C16: the text of a record is 5 lines, each ended by a newline: the
\* username, the words played with commas between them, the six buckets in
\* the order 1 to 6 with commas between them, the maximum and the current win
\* streak, each after its key and ": ".
C16_FiveLines ==
    last_op.op = "to_string, from_str" =>
        \A lines \in {Lines(ret.text)}, self \in {current_player} :
            /\ Len(lines) = 5
            /\ Cardinality({ k \in DOMAIN ret.text : ret.text[k] = NL }) = 5
            /\ ret.text[Len(ret.text)] = NL
            /\ lines[1] = KeyUsername \o << ":", " " >> \o self.username
            /\ \A entry \in {from_line(lines[2])} : \A items \in {Split(entry.value, COMMA)} :
                  /\ entry.some
                  /\ entry.name = KeyWordsPlayed
                  /\ IF self.words_played = {}
                     THEN entry.value = << >>
                     ELSE /\ Len(items) = Cardinality(self.words_played)
                          /\ Range(items) = self.words_played
            /\ \A entry \in {from_line(lines[3])} : \A items \in {Split(entry.value, COMMA)} :
                  /\ entry.some
                  /\ entry.name = KeyNumGuesses
                  /\ Len(items) = 6
                  /\ \A i \in 1..6 :
                        ParseUsize(items[i]) = [ok |-> TRUE, value |-> self.num_guesses[i]]
            /\ NumberLine(lines[4], KeyMaxWinStreak, self.max_win_streak)
            /\ NumberLine(lines[5], KeyCurWinStreak, self.cur_win_streak)

\* The text of a record with two words played, one won at the third guess
\* and one lost.
C16_Witness ==
    /\ last_op.op = "to_string, from_str"
    /\ Cardinality(current_player.words_played) = 2
    /\ current_player.num_guesses = << 0, 0, 1, 0, 0, 0 >>
    /\ current_player.max_win_streak = 1
    /\ current_player.cur_win_streak = 0
    /\ Len(Lines(ret.text)) = 5

\* C15: a login whose player file does not exist is no error: the player is
\* a new record under the username entered, with no word played, every
\* bucket 0 and both streaks 0, and the main menu is entered with it (the
\* program leaves only if the registry cannot be written).
C15_NewPlayer ==
    [][ (state = "LogIn" /\ entered'.some /\ ~player_files[entered'.value].exists) =>
            /\ current_player' =
                  [ username |-> entered'.value,
                    words_played |-> {},
                    num_guesses |-> << 0, 0, 0, 0, 0, 0 >>,
                    max_win_streak |-> 0,
                    cur_win_streak |-> 0 ]
            /\ out' # CorruptMessage
            /\ \/ state' = "MainMenu" /\ out' = HelloMessage
               \/ state' = "Exit" /\ out' = SaveErrorMessage
      ]_vars

\* At the main menu as "al", who had no file: a new record.
C15_Witness ==
    /\ AtMenu
    /\ ops = 0
    /\ entered = Some(al)
    /\ ~player_files[al].exists
    /\ current_player = PlayerInfo_new(al)

\* enum ProgramState
ProgramStates ==
    { "LogIn", "MainMenu", "DeleteUser", "Exit" }

\* The transitions the claim lists.
Transitions ==
    { << "LogIn", "MainMenu" >>, << "LogIn", "Exit" >>,
      << "MainMenu", "MainMenu" >>, << "MainMenu", "LogIn" >>,
      << "MainMenu", "DeleteUser" >>, << "MainMenu", "Exit" >>,
      << "DeleteUser", "LogIn" >>, << "DeleteUser", "Exit" >> }

\* C17: the machine starts in LogIn; every step that leaves it in a
\* ProgramState takes one of the eight transitions listed, none of which
\* leaves Exit; the player stays the same from MainMenu to MainMenu and to
\* DeleteUser; and MainMenu and DeleteUser are entered with a player only.
C17_Transitions ==
    /\ state = "LogIn"
    /\ [][ state' \in ProgramStates =>
              /\ << state, state' >> \in Transitions
              /\ state' \in {"MainMenu", "DeleteUser"} =>
                    /\ current_player' # NoPlayer
                    /\ state = "MainMenu" =>
                          current_player'.username = current_player.username
         ]_vars

\* Back at the login after "al" logged in and was deleted.
C17_Witness ==
    /\ state = "LogIn"
    /\ current_player # NoPlayer
    /\ current_player.username = al
    /\ al \notin usernames
    /\ entered = Some(al)

\* C18: when a login leads to the main menu, the username is in the registry
\* and in the registry file as the login left it (a failed write leads to
\* Exit instead).
C18_RegistryPersisted ==
    [][ (state = "LogIn" /\ state' = "MainMenu") =>
            /\ entered'.some
            /\ entered'.value \in usernames'
            /\ users_file'.exists
            /\ entered'.value \in Range(Lines(users_file'.text))
      ]_vars

\* The line read at the username prompt is blank: white space only, or
\* nothing.
BlankLine(read) ==
    read.ok /\ \A i \in 1..Len(read.line) : read.line[i] \in {" ", TAB, CR, NL}

\* The line read at the username prompt is the quit command.
QuitLine(read) ==
    read.ok /\ trim(read.line) \in { << ":", "q" >>, << ":", "Q" >> }

\* The step is a login that ends the program and leaves the registry and the
\* files alone.
LeavesAtLogin ==
    /\ state' = "Exit"
    /\ entered' = None
    /\ current_player' = NoPlayer
    /\ usernames' = usernames
    /\ users_file' = users_file
    /\ player_files' = player_files
    /\ out' = ""

\* C19: a blank line or ":q" at the username prompt ends the program, with
\* no username added and no player file read or created.
C19_BlankOrQuit ==
    [][ (state = "LogIn"
            /\ (BlankLine(last_op'.read) \/ QuitLine(last_op'.read)))
            => LeavesAtLogin
      ]_vars

\* What holds of the quit command alone: ":q", in small or capital letters,
\* or a failed read ends the program in that way.
QuitLeavesAtLogin ==
    [][ (state = "LogIn" /\ (QuitLine(last_op'.read) \/ ~last_op'.read.ok))
            => LeavesAtLogin
      ]_vars

\* C20: when a game ends, the main menu comes next with the same player; the
\* record in memory is the one the game left (won, lost or given up); and
\* the file of the player holds the text of that record, or the failure to
\* write it has been reported.
C20_WriteAfterGame ==
    [][ (InGame /\ attempt' = 0) =>
            /\ state' = "MainMenu"
            /\ current_player' \in
                  { current_player,
                    add_won_word(current_player, answer.word, attempt),
                    add_lost_word(current_player, answer.word) }
            /\ \/ player_files'[current_player'.username] \in
                      { FileOf(text) : text \in PlayerInfo_to_string(current_player') }
               \/ out' = WriteErrorMessage
      ]_vars

\* C21: a step that prints the statistics at the main menu leaves the record
\* of the player, the registry, the registry file and every player file as
\* they were, and the main menu comes next.
C21_ViewStatsFrame ==
    [][ (AtMenu /\ out' = StatsMessage) =>
            /\ state' = "MainMenu"
            /\ attempt' = 0
            /\ current_player' = current_player
            /\ usernames' = usernames
            /\ users_file' = users_file
            /\ player_files' = player_files
      ]_vars

\* The statistics of a new player, who has no file yet, have been printed
\* without a game.
C21_Witness ==
    /\ AtMenu
    /\ out = StatsMessage
    /\ ops = 0
    /\ current_player = PlayerInfo_new(al)
    /\ ~player_files[al].exists

\* The answer to "Are you sure...": the letter y, small or capital, with
\* white space around it or none.
Confirms(read) ==
    read.ok /\ trim(read.line) \in { << "y" >>, << "Y" >> }

\* C22: after Delete account has been chosen, DeleteUser comes next exactly
\* when the answer is y; any other answer, and a failed read, gives the main
\* menu with the message that the action was aborted; in both cases the
\* player, the registry and the files are as before.
C22_Confirmation ==
    [][ (AtMenu /\ last_op'.op = "user_confirmation") =>
            /\ IF Confirms(last_op'.read)
               THEN state' = "DeleteUser"
               ELSE state' = "MainMenu" /\ out' = AbortedMessage
            /\ attempt' = 0
            /\ current_player' = current_player
            /\ usernames' = usernames
            /\ users_file' = users_file
            /\ player_files' = player_files
      ]_vars

\* The deletion has been confirmed with " Y".
C22_Witness ==
    /\ state = "DeleteUser"
    /\ last_op.op = "user_confirmation"
    /\ last_op.read = Line(<< " ", "Y", NL >>)

\* The usernames users.txt holds, one per line.
PersistedRegistry(file) ==
    Range(Lines(file.text))

\* C23: the DeleteUser state takes the username of the player out of the
\* registry and leaves the other usernames; LogIn or Exit comes next,
\* whether or not the file of the player could be deleted; LogIn comes next
\* only with users.txt holding the registry, without the username; and when
\* users.txt does not hold the registry, Exit comes next, with the message
\* that the user database could not be written.
C23_DeleteUser ==
    [][ (state = "DeleteUser") =>
            /\ usernames' = usernames \ {current_player.username}
            /\ state' \in {"LogIn", "Exit"}
            /\ state' = "LogIn" =>
                  /\ users_file'.exists
                  /\ PersistedRegistry(users_file') = usernames'
                  /\ current_player.username \notin PersistedRegistry(users_file')
            /\ state' = "Exit" => out' = SaveErrorMessage
      ]_vars

AllCorrect(c) ==
    c = [i \in 1..WordLen |-> Correct]

ValidGuess(g) ==
    Len(g) = WordLen /\ g \in Dictionary

\* C24: in a game the number of the guess asked for is 1 to 6; a line
\* answered with the length or the dictionary message leaves that number,
\* the record and what has been scored as they were; a guess that is scored
\* while the game goes on is a valid word, its colours are not all Correct,
\* and the number grows by one; the game that ends with a scored guess is
\* won with this number of guesses, counted in the bucket of that number,
\* when the colours are all Correct, and is otherwise lost at guess 6.
C24_GameRules ==
    [][ InGame =>
            /\ attempt' \in 0..MaxGuesses
            /\ out' \in {LengthMessage, DictionaryMessage} =>
                  /\ attempt' = attempt
                  /\ current_player' = current_player
                  /\ UNCHANGED scoreVars
            /\ attempt' \notin {0, attempt} =>
                  /\ attempt' = attempt + 1
                  /\ ValidGuess(guess')
                  /\ colors' = check_guess(answer, guess').colors
                  /\ ~AllCorrect(colors')
            /\ (attempt' = 0 /\ last_op'.guess # NoGuess) =>
                  /\ ValidGuess(last_op'.guess)
                  /\ last_op'.colors = check_guess(answer, last_op'.guess).colors
                  /\ IF AllCorrect(last_op'.colors)
                     THEN /\ last_op'.won_game = Some(attempt)
                          /\ current_player'.num_guesses[attempt]
                                = current_player.num_guesses[attempt] + 1
                     ELSE /\ attempt = MaxGuesses
                          /\ last_op'.won_game = None
                          /\ current_player'.num_guesses
                                = current_player.num_guesses
                          /\ answer.word \in current_player'.words_played
      ]_vars

\* A game has been lost: its sixth guess was scored and was not the answer.
C24_Witness ==
    /\ AtMenu
    /\ last_op.op = "game::run"
    /\ last_op.won_game = None
    /\ ValidGuess(last_op.guess)
    /\ ~AllCorrect(last_op.colors)

\* C25: the record of the player is the same from the start of a game to the
\* step that ends it; that step records one win for the answer with the
\* number of the winning guess, or one loss for the answer, or, when a read
\* failed, nothing at all.
C25_RecordOnce ==
    [][ /\ (AtMenu /\ attempt' # 0) => current_player' = current_player
        /\ (InGame /\ attempt' # 0) => current_player' = current_player
        /\ (InGame /\ attempt' = 0) =>
              current_player' =
                  CASE last_op'.won_game = None ->
                          add_lost_word(current_player, answer.word)
                    [] last_op'.won_game = Some(-1) -> current_player
                    [] OTHER ->
                          add_won_word(current_player, answer.word,
                                       last_op'.won_game.value)
      ]_vars

\* A game of a player with a record has been cut short by a failed read,
\* and the record is the one the file held.
C25_Witness ==
    /\ AtMenu
    /\ last_op.op = "game::run"
    /\ last_op.won_game = Some(-1)
    /\ current_player = StreakRecord

\* Where the program is and all it holds, its last message apart.
ProgramPoint ==
    << state, attempt, answer, guess, colors, scored, current_player,
       usernames, entered, users_file, player_files >>

\* C26: once the input has ended no step brings the program back to where
\* it was with all it held: a prompt that came back like that would be
\* asked again for ever, and Exit would not be reached.
C26_NoPromptRepeats ==
    [][ script.input = "ended" => ProgramPoint' # ProgramPoint ]_vars

\* C27: a login with a username whose file exists and does not parse prints
\* the message about the corrupt file and ends the program: the main menu
\* is not entered, there is no record in use, and the files are as before.
C27_CorruptFile ==
    [][ (/\ state = "LogIn"
         /\ entered'.some
         /\ player_files[entered'.value].exists
         /\ ~from_str(player_files[entered'.value].text).ok) =>
            /\ out' = CorruptMessage
            /\ state' = "Exit"
            /\ current_player' = NoPlayer
            /\ player_files' = player_files
      ]_vars

\* The login of al has failed on a file of one line.
C27_Witness ==
    /\ state = "Exit"
    /\ out = CorruptMessage
    /\ entered = Some(al)
    /\ player_files[al] = FileOf(WriteLine(KeyUsername, al))

\* Two usernames that differ, but only in the case of their letters.
DifferByCase(a, b) ==
    a # b /\ to_lowercase(a) = to_lowercase(b)

\* C28: the username of a login is the line typed, trimmed and in lower
\* case; it is in the registry after the login, which gains no other name;
\* the record in use is the one of the file of that username, or a new one
\* with that username; and the login adds no name that differs from a name
\* of the registry only by case.
C28_CaseInsensitive ==
    [][ (state = "LogIn" /\ entered'.some) =>
            /\ entered'.value = to_lowercase(trim(last_op'.read.line))
            /\ entered'.value \in usernames'
            /\ usernames' = usernames \cup {entered'.value}
            /\ current_player' # NoPlayer =>
                  IF player_files[entered'.value].exists
                  THEN current_player' =
                          from_str(player_files[entered'.value].text).player
                  ELSE current_player' = PlayerInfo_new(entered'.value)
            /\ \A new \in usernames' \ usernames :
                  \A old \in usernames : ~DifferByCase(new, old)
      ]_vars

\* The lines are the names of the set, each once, in ascending order.
SortedLinesOf(lines, names) ==
    /\ Range(lines) = names
    /\ Len(lines) = Cardinality(names)
    /\ \A i \in 1..Len(lines) : \A j \in (i + 1)..Len(lines) :
          StrLess(lines[i], lines[j])

\* C29: when a step enters or stays in the main menu, and when it goes from
\* DeleteUser back to LogIn, users.txt exists and its lines are the
\* usernames of the registry in memory, each once, in ascending order.
C29_RegistryFile ==
    [][ (state' = "MainMenu" \/ (state = "DeleteUser" /\ state' = "LogIn")) =>
            /\ users_file'.exists
            /\ SortedLinesOf(Lines(users_file'.text), usernames')
      ]_vars

C31_AllCorrectIffAnswer ==
    scored => (AllCorrect(colors) <=> guess = answer.word)

\* The answer itself, with a letter it holds three times, has been scored.
C31_Witness ==
    /\ scored
    /\ answer.word = <<"A", "B", "A", "A", "B">>
    /\ guess = answer.word
    /\ AllCorrect(colors)

\* What C31 draws from it for a game: the game that ends with a scored
\* guess is recorded as won exactly when that guess is the answer.
WinIffGuessIsAnswer ==
    [][ (InGame /\ attempt' = 0 /\ last_op'.guess # NoGuess) =>
            /\ last_op'.won_game = Some(attempt) <=> last_op'.guess = answer.word
            /\ last_op'.won_game = None <=> last_op'.guess # answer.word
      ]_vars

\* C32: the record in use never counts more games won than words played,
\* and the win rate shown for it is never above 100.
C32_WinsWithinWords ==
    current_player # NoPlayer =>
        /\ Sum(current_player.num_guesses, 1)
              <= Cardinality(current_player.words_played)
        /\ win_rate(current_player) <= 100

\* A second word has been won by a player who had won one before: two games
\* won, two words played.
C32_Witness ==
    /\ AtMenu
    /\ last_op.op = "game::run"
    /\ Sum(current_player.num_guesses, 1) = 2
    /\ Cardinality(current_player.words_played) = 2

\* The file of the player holds the text of the record in use.
FileHoldsRecord ==
    /\ current_player # NoPlayer
    /\ player_files[current_player.username] \in
          { FileOf(text) : text \in PlayerInfo_to_string(current_player) }

\* C33: when the file of the player who logged off holds the record that
\* was in use, a login with the same username that reaches the main menu
\* has that same record in use.
C33_ReloadSame ==
    [][ (/\ state = "LogIn"
         /\ FileHoldsRecord
         /\ state' = "MainMenu"
         /\ entered'.value = current_player.username) =>
            current_player' = current_player
      ]_vars

\* C34: a login with the username of the account that has just been deleted
\* (the record is still at hand, its username is out of the registry) starts
\* from a new record when it reaches the main menu.
C34_FreshAfterDelete ==
    [][ (/\ state = "LogIn"
         /\ current_player # NoPlayer
         /\ current_player.username \notin usernames
         /\ entered'.some
         /\ entered'.value = current_player.username
         /\ state' = "MainMenu") =>
            current_player' = PlayerInfo_new(entered'.value)
      ]_vars

\* C35: when a step leaves a player logged in (MainMenu or DeleteUser), the
\* username of the record is in the registry and is the name entered at the
\* last login; and it is the username the record had before the step, when
\* a player was logged in then.
C35_UsernameOfLogin ==
    [][ LoggedIn' =>
            /\ current_player'.username \in usernames'
            /\ current_player'.username = entered'.value
            /\ LoggedIn => current_player'.username = current_player.username
      ]_vars

\* C36: every word handed to WordleAnswer::new or to check_guess is made of
\* the letters A to Z, and neither call panics.
C36_LettersOnly ==
    /\ last_op.op \in {"WordleAnswer::new", "check_guess"} =>
          \A i \in 1..Len(last_op.word) : IsCapital(last_op.word[i])
    /\ state # "Panicked"

\* The answer of a game that starts has not been played, and the answer of
\* a game played to its end has been played once the game is over.
AnswerPlayedOnce ==
    /\ (AtMenu /\ attempt' # 0) =>
          answer'.word \in Dictionary \ current_player.words_played
    /\ (InGame /\ attempt' = 0 /\ last_op'.guess # NoGuess) =>
          answer.word \in current_player'.words_played

\* C37: no word is the answer of two games of a player played to their end
\* (see AnswerPlayedOnce), and when Play is chosen with every word of the
\* dictionary played, the message that no words remain is printed and the
\* main menu comes next.
C37_NoWordTwice ==
    [][ /\ AnswerPlayedOnce
        /\ (PlayGame /\ Dictionary \subseteq current_player.words_played) =>
              state' = "MainMenu" /\ out' = NoWordsMessage
      ]_vars

\* The first part of C37 alone.
AnswerNeverPlayedTwice ==
    [][AnswerPlayedOnce]_vars

\* C38: at the main menu, where Play may be chosen, the words played by the
\* player are words of the dictionary, so the count of unplayed words that
\* get_random_word computes is not negative and is the number of words of
\* the dictionary that have not been played.
C38_PlayedInDictionary ==
    AtMenu =>
        /\ current_player.words_played \subseteq Dictionary
        /\ Cardinality(Dictionary) - Cardinality(current_player.words_played)
              = Cardinality(Dictionary \ current_player.words_played)

\* The number a line holds after its separator.
NumberOn(line) ==
    ParseUsize(AfterSeparator(line)).value

\* The record parsed has the number of the 4th line as its maximum win
\* streak and the number of the 5th line as its current win streak.
StreaksFromTheirLines ==
    ret.parsed.ok =>
        \A lines \in {Lines(ret.text)} :
            /\ ~LacksSeparator(lines[5])
            /\ NonNegativeInteger(AfterSeparator(lines[5]))
            /\ ret.parsed.player.max_win_streak = NumberOn(lines[4])
            /\ ret.parsed.player.cur_win_streak = NumberOn(lines[5])

\* C39: with the parser of players/mod.rs and with the parser of
\* players.rs, a record that is parsed takes its maximum win streak from
\* the 4th line and its current win streak from the 5th.
C39_StreakLines ==
    last_op.op \in {"from_str", "from_file"} => StreaksFromTheirLines

\* C39 for the parser of players/mod.rs alone.
FromStrStreakLines ==
    last_op.op = "from_str" => StreaksFromTheirLines

====
